---- MODULE Spec2Model ----
(***************************************************************************)
(* Property monitor: the scrape-normalize-reconcile pipeline of            *)
(* property_monitor_app.py (resolver, status normalizer, extractors,       *)
(* fetcher, add/refresh against the properties table, batch refresh and    *)
(* bulk add), run by the browser sessions of the Streamlit server.         *)
(*                                                                         *)
(* Python strings on which the code computes (strip, upper, startswith,    *)
(* regular expressions, concatenation) are tuples of one-character         *)
(* strings; '' is << >>.                                                   *)
(***************************************************************************)
EXTENDS Integers, Sequences, FiniteSets, TLC

(***************************************************************************)
(* Bounds of the model.                                                    *)
(***************************************************************************)
\* rows ever inserted into the properties table (AUTOINCREMENT ids 1..MaxProps)
MaxProps == 2
\* Spec: datetime.now() takes the values 1..MaxTime
MaxTime == 3
\* SpecBatch: datetime.now() takes the values 1..MaxTimeBatch
MaxTimeBatch == 4
\* SpecHistory: datetime.now() takes the values 1..MaxTimeHistory
MaxTimeHistory == 5
\* length of a bulk-add input list
MaxBulk == 2

(***************************************************************************)
(* Characters and string helpers.                                          *)
(***************************************************************************)
Lower ==
    <<"a","b","c","d","e","f","g","h","i","j","k","l","m",
      "n","o","p","q","r","s","t","u","v","w","x","y","z">>
UpperL ==
    <<"A","B","C","D","E","F","G","H","I","J","K","L","M",
      "N","O","P","Q","R","S","T","U","V","W","X","Y","Z">>
Digits == <<"0","1","2","3","4","5","6","7","8","9">>
Whitespace == {" ", "\t", "\n", "\r"}

Range(f) == {f[i] : i \in DOMAIN f}
IsDigit(c) == c \in Range(Digits)
IsAlpha(c) == c \in Range(Lower) \cup Range(UpperL)

\* str.upper(), one character
UpperChar(c) ==
    IF c \in Range(Lower) THEN UpperL[CHOOSE i \in DOMAIN Lower : Lower[i] = c] ELSE c
\* str.upper()
Upper(s) == [i \in DOMAIN s |-> UpperChar(s[i])]

RECURSIVE LStrip(_)
LStrip(s) == IF s # << >> /\ Head(s) \in Whitespace THEN LStrip(Tail(s)) ELSE s
RECURSIVE RStrip(_)
RStrip(s) ==
    IF s # << >> /\ s[Len(s)] \in Whitespace THEN RStrip(SubSeq(s, 1, Len(s) - 1)) ELSE s
\* str.strip()
Strip(s) == RStrip(LStrip(s))

\* s.startswith(p)
Last(s) == s[Len(s)]
Front(s) == SubSeq(s, 1, Len(s) - 1)
StartsWith(s, p) == Len(p) <= Len(s) /\ SubSeq(s, 1, Len(p)) = p
\* needle in s
Contains(s, needle) ==
    \E i \in 1..(Len(s) - Len(needle) + 1) : SubSeq(s, i, i + Len(needle) - 1) = needle

\* str(n) of a natural number
RECURSIVE IntToStr(_)
IntToStr(n) == IF n < 10 THEN <<Digits[n + 1]>> ELSE IntToStr(n \div 10) \o <<Digits[(n % 10) + 1]>>

\* SQL NULL / Python None in a text column; no string equals it
Null == <<"NULL">>
\* SQL NULL in a TIMESTAMP column; datetime.now() is never 0
NullTime == 0

(***************************************************************************)
(* Literals of the source.                                                 *)
(***************************************************************************)

\* 'https://www.utahrealestate.com/report/'
UTAH_URL_PATTERN ==
    <<"h","t","t","p","s",":","/","/","w","w","w",".","u","t","a","h","r","e","a","l","e","s","t","a","t","e",".","c","o","m","/","r","e","p","o","r","t","/">>

\* 'http://'
HttpPrefix ==
    <<"h","t","t","p",":","/","/">>

\* 'https://'
HttpsPrefix ==
    <<"h","t","t","p","s",":","/","/">>

\* 'utahrealestate.com'
UtahHost ==
    <<"u","t","a","h","r","e","a","l","e","s","t","a","t","e",".","c","o","m">>

\* 'zillow.com'
ZillowHost ==
    <<"z","i","l","l","o","w",".","c","o","m">>

\* 'MLS'
MlsPrefix ==
    <<"M","L","S">>

\* 'For Sale'
ForSale ==
    <<"F","o","r"," ","S","a","l","e">>

\* 'Off Market'
OffMarket ==
    <<"O","f","f"," ","M","a","r","k","e","t">>

\* 'Pending'
Pending ==
    <<"P","e","n","d","i","n","g">>

\* 'Contingent'
Contingent ==
    <<"C","o","n","t","i","n","g","e","n","t">>

\* 'Sold'
Sold ==
    <<"S","o","l","d">>

\* 'Coming Soon'
ComingSoon ==
    <<"C","o","m","i","n","g"," ","S","o","o","n">>

\* 'For Rent'
ForRent ==
    <<"F","o","r"," ","R","e","n","t">>

\* 'Status Not Found'
StatusNotFound ==
    <<"S","t","a","t","u","s"," ","N","o","t"," ","F","o","u","n","d">>

\* 'FOR_SALE'
K_FOR_SALE_U ==
    <<"F","O","R","_","S","A","L","E">>

\* 'ACTIVE'
K_ACTIVE ==
    <<"A","C","T","I","V","E">>

\* 'FOR SALE'
K_FOR_SALE ==
    <<"F","O","R"," ","S","A","L","E">>

\* 'OFF_MARKET'
K_OFF_MARKET_U ==
    <<"O","F","F","_","M","A","R","K","E","T">>

\* 'OFF MARKET'
K_OFF_MARKET ==
    <<"O","F","F"," ","M","A","R","K","E","T">>

\* 'PENDING'
K_PENDING ==
    <<"P","E","N","D","I","N","G">>

\* 'UNDER CONTRACT'
K_UNDER_CONTRACT ==
    <<"U","N","D","E","R"," ","C","O","N","T","R","A","C","T">>

\* 'CONTINGENT'
K_CONTINGENT ==
    <<"C","O","N","T","I","N","G","E","N","T">>

\* 'SOLD'
K_SOLD ==
    <<"S","O","L","D">>

\* 'CLOSED'
K_CLOSED ==
    <<"C","L","O","S","E","D">>

\* 'COMING_SOON'
K_COMING_SOON_U ==
    <<"C","O","M","I","N","G","_","S","O","O","N">>

\* 'COMING SOON'
K_COMING_SOON ==
    <<"C","O","M","I","N","G"," ","S","O","O","N">>

\* 'FOR_RENT'
K_FOR_RENT_U ==
    <<"F","O","R","_","R","E","N","T">>

\* 'FOR RENT'
K_FOR_RENT ==
    <<"F","O","R"," ","R","E","N","T">>

\* 'Unsupported website'
ErrUnsupported ==
    <<"U","n","s","u","p","p","o","r","t","e","d"," ","w","e","b","s","i","t","e">>

\* 'Address detected. Find URL manually.'
ErrAddress ==
    <<"A","d","d","r","e","s","s"," ","d","e","t","e","c","t","e","d","."," ","F","i","n","d"," ","U","R","L"," ","m","a","n","u","a","l","l","y",".">>

\* 'Invalid input'
ErrInvalid ==
    <<"I","n","v","a","l","i","d"," ","i","n","p","u","t">>

\* 'Timeout'
ErrTimeout ==
    <<"T","i","m","e","o","u","t">>

\* 'Not found'
ErrNotFound ==
    <<"N","o","t"," ","f","o","u","n","d">>

\* 'Unknown source'
ErrUnknownSource ==
    <<"U","n","k","n","o","w","n"," ","s","o","u","r","c","e">>

\* 'HTTP '
HttpWord ==
    <<"H","T","T","P"," ">>

\* 'Scraping failed: '
ScrapingFailed ==
    <<"S","c","r","a","p","i","n","g"," ","f","a","i","l","e","d",":"," ">>

\* 'Scraping error: '
ScrapingError ==
    <<"S","c","r","a","p","i","n","g"," ","e","r","r","o","r",":"," ">>

\* 'Success'
Success ==
    <<"S","u","c","c","e","s","s">>

\* '$'
Dollar ==
    <<"$">>

\* ': '
ColonSpace ==
    <<":"," ">>

\* the two source names are only compared, never computed on
SourceUtah == "UtahRealEstate.com"
SourceZillow == "Zillow.com"

(***************************************************************************)
(* Identifier resolver.                                                    *)
(***************************************************************************)
detect_source(url) ==
    IF Contains(url, UtahHost) THEN SourceUtah
    ELSE IF Contains(url, ZillowHost) THEN SourceZillow
    ELSE "None"

\* re.match(r'^(MLS)?(\d{6,10})$', s, re.IGNORECASE): the digits of group 2, or << >>
\* the prefix in upper case only
MlsDigitsExactCase(s) ==
    LET rest == IF Len(s) >= 3 /\ SubSeq(s, 1, 3) = MlsPrefix
                THEN SubSeq(s, 4, Len(s)) ELSE s
    IN  IF Len(rest) \in 6..10 /\ \A i \in DOMAIN rest : IsDigit(rest[i])
        THEN rest ELSE << >>

MlsDigits(s) ==
    LET rest == IF Len(s) >= 3 /\ Upper(SubSeq(s, 1, 3)) = MlsPrefix
                THEN SubSeq(s, 4, Len(s)) ELSE s
    IN  IF Len(rest) \in 6..10 /\ \A i \in DOMAIN rest : IsDigit(rest[i])
        THEN rest ELSE << >>

\* re.match(r'\d+.*[a-zA-Z].*,', s): '.' matches every character but a newline
LooksLikeAddress(s) ==
    /\ s # << >>
    /\ IsDigit(s[1])
    /\ \E i \in 2..Len(s) : \E j \in (i + 1)..Len(s) :
          /\ IsAlpha(s[i])
          /\ s[j] = ","
          /\ \A k \in 2..(j - 1) : s[k] # "\n"

ResolveOk(url, source) == [success |-> TRUE, url |-> url, source |-> source, error |-> << >>]
ResolveErr(error) == [success |-> FALSE, url |-> << >>, source |-> "None", error |-> error]

convert_input_to_url(input_text) ==
    LET s == Strip(input_text)
    IN  IF StartsWith(s, HttpPrefix) \/ StartsWith(s, HttpsPrefix)
        THEN IF detect_source(s) # "None"
             THEN ResolveOk(s, detect_source(s))
             ELSE ResolveErr(ErrUnsupported)
        ELSE IF MlsDigits(s) # << >>
        THEN ResolveOk(UTAH_URL_PATTERN \o MlsDigits(s), SourceUtah)
        ELSE IF LooksLikeAddress(s)
        THEN ResolveErr(ErrAddress)
        ELSE ResolveErr(ErrInvalid)

(***************************************************************************)
(* Status normalizer.                                                      *)
(***************************************************************************)
CanonicalStatuses == {ForSale, OffMarket, Pending, Contingent, Sold, ComingSoon, ForRent}

\* the dict status_map, as the set of its <<key, value>> items
status_map ==
    { <<K_FOR_SALE_U, ForSale>>, <<K_ACTIVE, ForSale>>, <<K_FOR_SALE, ForSale>>,
      <<K_OFF_MARKET_U, OffMarket>>, <<K_OFF_MARKET, OffMarket>>,
      <<K_PENDING, Pending>>, <<K_UNDER_CONTRACT, Pending>>, <<K_CONTINGENT, Contingent>>,
      <<K_SOLD, Sold>>, <<K_CLOSED, Sold>>,
      <<K_COMING_SOON_U, ComingSoon>>, <<K_COMING_SOON, ComingSoon>>,
      <<K_FOR_RENT_U, ForRent>>, <<K_FOR_RENT, ForRent>> }

\* status_map.get(key, default)
MapGet(key, default) ==
    IF \E kv \in status_map : kv[1] = key
    THEN (CHOOSE kv \in status_map : kv[1] = key)[2]
    ELSE default

\* an unlisted token comes back trimmed
normalize_status_trimming(status_text) ==
    IF status_text = << >> THEN << >>
    ELSE MapGet(Strip(Upper(status_text)), Strip(status_text))

normalize_status(status_text) ==
    IF status_text = << >> THEN << >>
    ELSE MapGet(Strip(Upper(status_text)), status_text)

(***************************************************************************)
(* A fetched page, by what the extractors' patterns find in it.  Each      *)
(* field is the text captured by the first match of one pattern, << >>     *)
(* when the pattern has no match.                                          *)
(*   facts       value following <span class="facts-header">Status</span>  *)
(*   homeStatus  "homeStatus": "..."                                       *)
(*   spanStatus  <span data-testid="listing-status">...</span>             *)
(*   availability "availability": "..."                                    *)
(*   price       the first currency-like number of the page                *)
(*   spanPrice   <span data-testid="price">$...                            *)
(*   jsonPrice   "price": ...                                              *)
(***************************************************************************)
Page(facts, homeStatus, spanStatus, availability, price, spanPrice, jsonPrice) ==
    [facts |-> facts, homeStatus |-> homeStatus, spanStatus |-> spanStatus,
     availability |-> availability, price |-> price, spanPrice |-> spanPrice,
     jsonPrice |-> jsonPrice]

\* a faulty search of a pattern list: the last pattern with a match wins
RECURSIVE FirstMatchOfLast(_)
FirstMatchOfLast(captures) ==
    IF captures = << >> THEN << >>
    ELSE IF Last(captures) # << >> THEN Last(captures)
    ELSE FirstMatchOfLast(Front(captures))

\* first pattern of the list with a match: its capture, << >> when none matches
RECURSIVE FirstMatch(_)
FirstMatch(captures) ==
    IF captures = << >> THEN << >>
    ELSE IF Head(captures) # << >> THEN Head(captures)
    ELSE FirstMatch(Tail(captures))

ScrapeOk(status, price) ==
    [success |-> TRUE, status |-> status, price |-> price, error |-> << >>]
ScrapeErr(error) ==
    [success |-> FALSE, status |-> << >>, price |-> << >>, error |-> error]

\* a faulty extractor: an empty status stays empty
OrLeftEmpty(status) == status

\* the sentinel substituted for an empty status
OrNotFound(status) == IF status = << >> THEN StatusNotFound ELSE status

\* facts.get('Status', ''): a fact is kept only when its stripped value is not empty
FactsStatus(html) == Strip(html.facts)

\* exc: the message of an exception raised while matching, << >> when none is
scrape_utah_realestate(html, exc) ==
    IF exc # << >> THEN ScrapeErr(ScrapingFailed \o exc)
    ELSE ScrapeOk(OrNotFound(normalize_status(FactsStatus(html))),
                  IF html.price # << >> THEN Dollar \o Strip(html.price) ELSE << >>)

scrape_zillow(html, exc) ==
    IF exc # << >> THEN ScrapeErr(ScrapingError \o exc)
    ELSE LET status == FirstMatch(<<html.homeStatus, html.spanStatus, html.availability>>)
             price == FirstMatch(<<html.spanPrice, html.jsonPrice>>)
         IN  ScrapeOk(OrNotFound(normalize_status(status)),
                      IF price # << >> THEN Dollar \o price ELSE << >>)

(***************************************************************************)
(* Fetcher.  What requests.get does is the environment's choice:           *)
(*   kind "timeout"    requests.exceptions.Timeout                         *)
(*   kind "exception"  any other exception, with message msg               *)
(*   kind "response"   a response with status code, body html; exc is the  *)
(*                     message of an exception raised inside the extractor *)
(***************************************************************************)
TimeoutOutcome ==
    [kind |-> "timeout", code |-> 0, html |-> << >>, exc |-> << >>, msg |-> << >>]
ExceptionOutcome(msg) ==
    [kind |-> "exception", code |-> 0, html |-> << >>, exc |-> << >>, msg |-> msg]
ResponseOutcome(code, html, exc) ==
    [kind |-> "response", code |-> code, html |-> html, exc |-> exc, msg |-> << >>]

scrape_property(url, source, outcome) ==
    IF outcome.kind = "timeout" THEN ScrapeErr(ErrTimeout)
    ELSE IF outcome.kind = "exception" THEN ScrapeErr(outcome.msg)
    ELSE IF outcome.code # 200 THEN ScrapeErr(HttpWord \o IntToStr(outcome.code))
    ELSE IF source = SourceUtah THEN scrape_utah_realestate(outcome.html, outcome.exc)
    ELSE IF source = SourceZillow THEN scrape_zillow(outcome.html, outcome.exc)
    ELSE ScrapeErr(ErrUnknownSource)

(***************************************************************************)
(* Inputs of the model: what the users type and what the sites answer.     *)
(***************************************************************************)
\* ' mls2053078'
InMlsPrefixed ==
    <<" ","m","l","s","2","0","5","3","0","7","8">>
\* 'https://www.zillow.com/homedetails/7'
InZillow ==
    <<"h","t","t","p","s",":","/","/","w","w","w",".","z","i","l","l","o","w",".","c","o","m","/","h","o","m","e","d","e","t","a","i","l","s","/","7">>
\* 'not-a-listing'
InInvalid ==
    <<"n","o","t","-","a","-","l","i","s","t","i","n","g">>
\* what the sessions type
Inputs == {InMlsPrefixed, InZillow, InInvalid}

\* raw status tokens of a page
TokActive == <<"A","c","t","i","v","e">>
TokPending == <<" ","p","e","n","d","i","n","g"," ">>
TokBackup == <<"B","a","c","k","u","p">>
TokForSaleU == <<"F","O","R","_","S","A","L","E">>
TokBlank == <<" ">>
\* a price as the page prints it
TokPrice == <<"4","5","0",",","0","0","0">>
TokPriceJson == <<"4","5","5","0","0","0">>
\* the message of an exception
ExcMsg == <<"b","o","o","m">>

NoMatch == << >>
\* pages of a listing that is for sale, pending, in a state the table of
\* normalize_status does not know, and a page without any status
PageActive == Page(TokActive, TokForSaleU, NoMatch, NoMatch, TokPrice, TokPrice, NoMatch)
PagePending == Page(TokPending, NoMatch, TokPending, TokActive, TokPrice, NoMatch, TokPriceJson)
PageBackup == Page(TokBackup, TokBackup, NoMatch, NoMatch, NoMatch, NoMatch, NoMatch)
PageBlank == Page(TokBlank, NoMatch, NoMatch, NoMatch, NoMatch, NoMatch, NoMatch)
Pages == {PageActive, PagePending, PageBackup, PageBlank}

\* what requests.get and the extractor do on one call
Failures ==
    {TimeoutOutcome, ExceptionOutcome(ExcMsg), ResponseOutcome(404, NoMatch, NoMatch),
     ResponseOutcome(200, PageActive, ExcMsg)}
Outcomes == Failures \cup {ResponseOutcome(200, html, NoMatch) : html \in Pages}

(***************************************************************************)
(* The content of a page as the extractors see it: a sequence of pieces    *)
(* of markup, in the order of the text.  A piece is named; Pieces lists    *)
(* which patterns of the extractors match inside it and what group 1       *)
(* captures there.  re.search(pattern, html) is the match in the first     *)
(* piece of the content the pattern matches in.                            *)
(***************************************************************************)
\* ' 1 Main St '
TokStreet ==
    <<" ","1"," ","M","a","i","n"," ","S","t"," ">>
\* '2 Oak Av, Provo'
TokJsonAddress ==
    <<"2"," ","O","a","k"," ","A","v",","," ","P","r","o","v","o">>
\* <<piece, pattern, capture>>; the currency pattern of scrape_utah_realestate
\* (field price of a page) also matches the numbers of the two price pieces
Pieces ==
    { <<"homeStatus:FOR_SALE", "homeStatus", TokForSaleU>>,
      <<"homeStatus:Backup", "homeStatus", TokBackup>>,
      <<"span:pending", "spanStatus", TokPending>>,
      <<"availability:Active", "availability", TokActive>>,
      <<"span:450,000", "spanPrice", TokPrice>>,
      <<"span:450,000", "price", TokPrice>>,
      <<"json:455000", "jsonPrice", TokPriceJson>>,
      <<"json:455000", "price", TokPriceJson>>,
      <<"h1:street", "h1", TokStreet>>,
      <<"h1:blank", "h1", TokBlank>>,
      <<"json:address", "jsonAddress", TokJsonAddress>>,
      <<"facts:Active", "facts", TokActive>>,
      <<"facts:blank", "facts", TokBlank>>,
      <<"text", "none", NoMatch>> }
PieceNames == {e[1] : e \in Pieces}
\* what the pattern captures in the piece, << >> when it has no match there
Capture(piece, pattern) ==
    IF \E e \in Pieces : e[1] = piece /\ e[2] = pattern
    THEN (CHOOSE e \in Pieces : e[1] = piece /\ e[2] = pattern)[3]
    ELSE << >>
\* re.search(pattern, html).group(1), << >> when there is no match
Search(content, pattern) ==
    LET hits == {i \in DOMAIN content : Capture(content[i], pattern) # << >>}
    IN  IF hits = {} THEN << >>
        ELSE Capture(content[CHOOSE i \in hits : \A j \in hits : i <= j], pattern)
\* facts.get('Status', ''): the loop over re.finditer keeps, of the facts
\* with a value that is not blank, the last one
SearchFacts(content) ==
    LET kept == {i \in DOMAIN content : Strip(Capture(content[i], "facts")) # << >>}
    IN  IF kept = {} THEN << >>
        ELSE Capture(content[CHOOSE i \in kept : \A j \in kept : j <= i], "facts")
\* the page of a content
ContentPage(content) ==
    Page(SearchFacts(content), Search(content, "homeStatus"), Search(content, "spanStatus"),
         Search(content, "availability"), Search(content, "price"),
         Search(content, "spanPrice"), Search(content, "jsonPrice"))
\* result['address'] of scrape_zillow
ZillowAddress(content) ==
    Strip(FirstMatch(<<Search(content, "h1"), Search(content, "jsonAddress")>>))
\* contents of up to three pieces, no piece twice
Contents ==
    {<< >>} \cup {<<a>> : a \in PieceNames}
            \cup {c \in {<<a, b>> : a \in PieceNames, b \in PieceNames} : c[1] # c[2]}
            \cup {c \in {<<a, b, d>> : a \in PieceNames, b \in PieceNames, d \in PieceNames} :
                     c[1] # c[2] /\ c[1] # c[3] /\ c[2] # c[3]}

\* a response with the page of a content
ContentOutcome(content) == ResponseOutcome(200, ContentPage(content), NoMatch)
ContentOutcomes == {ContentOutcome(content) : content \in Contents}

\* the pure functions on the inputs of the model, evaluated once
Resolved == [input_text \in Inputs |-> convert_input_to_url(input_text)]
Scraped ==
    [source \in {SourceUtah, SourceZillow, "None"}, outcome \in Outcomes \cup ContentOutcomes |->
        scrape_property(Resolved[InMlsPrefixed].url, source, outcome)]

(***************************************************************************)
(* State.                                                                  *)
(***************************************************************************)
Sessions == {1, 2}

VARIABLES
    store,              \* the properties table: id -> row, for the ids that have a row
    nextId,             \* the AUTOINCREMENT sequence of properties.id
    settings,           \* the settings table: key -> value, NullTime for ''
    now,                \* the next value datetime.now() returns
    pc,                 \* pc[s]: where the script run of session s is
    call,               \* call[s]: locals of the refresh_property call of session s
    batch,              \* batch[s]: locals of the batch function session s is in
    ret,                \* what the step just taken returned, if a function returned in it
    history,            \* of listing 1: the statuses its add and refreshes extracted,
                        \* and how often its last_changed was written
    arg,                \* the argument of the pure function under evaluation
    out                 \* the value the function returned for arg, NoOut before the call

vars == <<store, nextId, settings, now, pc, call, batch, ret, history, arg, out>>

\* a faulty INSERT: it stamps last_changed as if the status had changed
NewRowStamped(input_text, url_info, scraped_data, t) ==
    [input_text |-> input_text, source |-> url_info.source, status |-> scraped_data.status,
     price |-> scraped_data.price, resolved_url |-> url_info.url,
     last_checked |-> t, last_changed |-> t, previous_status |-> Null,
     notes |-> Success, zoho_id |-> Null]

\* a row of properties; the sixteen scraped columns other than status are all
\* written the same way (one parameter each of the same statement): price
\* stands for them
NewRow(input_text, url_info, scraped_data, t) ==
    [input_text |-> input_text, source |-> url_info.source, status |-> scraped_data.status,
     price |-> scraped_data.price, resolved_url |-> url_info.url,
     last_checked |-> t, last_changed |-> NullTime, previous_status |-> Null,
     notes |-> Success, zoho_id |-> Null]

\* a faulty UPDATE: it stores the input text as the url
UpdatedRowMoved(row, url_info, scraped_data, old_status, t) ==
    LET status_changed == old_status # scraped_data.status
    IN  [row EXCEPT
            !.source = url_info.source, !.status = scraped_data.status,
            !.price = scraped_data.price, !.resolved_url = row.input_text,
            !.last_checked = t,
            !.last_changed = IF status_changed THEN t ELSE @,
            !.previous_status = IF status_changed THEN old_status ELSE @,
            !.notes = Success]

\* a faulty UPDATE: it stores the resolved url as the input text
UpdatedRowRetyped(row, url_info, scraped_data, old_status, t) ==
    LET status_changed == old_status # scraped_data.status
    IN  [row EXCEPT
            !.input_text = url_info.url,
            !.source = url_info.source, !.status = scraped_data.status,
            !.price = scraped_data.price, !.resolved_url = url_info.url,
            !.last_checked = t,
            !.last_changed = IF status_changed THEN t ELSE @,
            !.previous_status = IF status_changed THEN old_status ELSE @,
            !.notes = Success]

\* a faulty UPDATE: it clears the id the CRM gave the row
UpdatedRowUnsynced(row, url_info, scraped_data, old_status, t) ==
    LET status_changed == old_status # scraped_data.status
    IN  [row EXCEPT
            !.source = url_info.source, !.status = scraped_data.status,
            !.price = scraped_data.price, !.resolved_url = url_info.url,
            !.last_checked = t,
            !.last_changed = IF status_changed THEN t ELSE @,
            !.previous_status = IF status_changed THEN old_status ELSE @,
            !.notes = Success, !.zoho_id = Null]

\* a faulty UPDATE: it keeps the status it read as previous_status on every
\* refresh
UpdatedRowRemembering(row, url_info, scraped_data, old_status, t) ==
    LET status_changed == old_status # scraped_data.status
    IN  [row EXCEPT
            !.source = url_info.source, !.status = scraped_data.status,
            !.price = scraped_data.price, !.resolved_url = url_info.url,
            !.last_checked = t,
            !.last_changed = IF status_changed THEN t ELSE @,
            !.previous_status = old_status,
            !.notes = Success]

\* the UPDATE of refresh_property applied to one row
UpdatedRow(row, url_info, scraped_data, old_status, t) ==
    LET status_changed == old_status # scraped_data.status
    IN  [row EXCEPT
            !.source = url_info.source, !.status = scraped_data.status,
            !.price = scraped_data.price, !.resolved_url = url_info.url,
            !.last_checked = t,
            !.last_changed = IF status_changed THEN t ELSE @,
            !.previous_status = IF status_changed THEN old_status ELSE @,
            !.notes = Success]

NoCall == [property_id |-> 0, input_text |-> << >>, old_status |-> << >>,
           url |-> << >>, source |-> "None"]
NoBatch == [op |-> "none", items |-> << >>, zoho_ids |-> << >>, idx |-> 0, changes |-> 0,
            success |-> 0, failed |-> 0, errors |-> << >>, callback |-> FALSE]

\* set_setting(key, value)
\* a faulty write of a setting: the statement is never committed
set_setting_uncommitted(key, value) == settings

set_setting(key, value) == [settings EXCEPT ![key] = value]

\* the 'data' of a return value that has none
NoData == [status |-> << >>, price |-> << >>]

\* a return value; the keys a function does not return hold the defaults
Ret(op) ==
    [op |-> op, success |-> TRUE, error |-> << >>, data |-> NoData,
     status_changed |-> FALSE, count |-> 0, changes |-> 0, added |-> 0, failed |-> 0,
     errors |-> << >>]
NoRet == Ret("none")

\* no function has returned yet
NoOut == [fn |-> "none", value |-> << >>]

\* the state after init_database() on a new file, no session has run yet

InitProgram ==
    /\ store = << >>
    /\ nextId = 1
    /\ settings = [last_full_refresh |-> NullTime, zoho_last_sync |-> NullTime]
    /\ now = 1
    /\ pc = [s \in Sessions |-> "idle"]
    /\ call = [s \in Sessions |-> NoCall]
    /\ batch = [s \in Sessions |-> NoBatch]
    /\ ret = NoRet
    /\ history = [statuses |-> << >>, writes |-> 0]

Init ==
    /\ InitProgram
    /\ arg = << >>
    /\ out = NoOut

(***************************************************************************)
(* add_property                                                            *)
(***************************************************************************)
\* a faulty add: it fetches before it looks at the result of the resolver
add_property_fetching_first(input_text, outcome) ==
    LET url_info == Resolved[input_text]
        scraped_data == Scraped[url_info.source, outcome]
    IN  IF ~scraped_data.success
        THEN [success |-> FALSE, error |-> scraped_data.error, url_info |-> url_info,
              data |-> scraped_data]
        ELSE IF ~url_info.success
        THEN [success |-> FALSE, error |-> url_info.error, url_info |-> url_info,
              data |-> scraped_data]
        ELSE [success |-> TRUE, error |-> << >>, url_info |-> url_info,
              data |-> scraped_data]

\* what add_property(input_text) returns and whether it reaches the INSERT,
\* given the answer of the site
add_property(input_text, outcome) ==
    LET url_info == Resolved[input_text]
        scraped_data == Scraped[url_info.source, outcome]
    IN  IF ~url_info.success
        THEN [success |-> FALSE, error |-> url_info.error, url_info |-> url_info,
              data |-> scraped_data]
        ELSE IF ~scraped_data.success
        THEN [success |-> FALSE, error |-> scraped_data.error, url_info |-> url_info,
              data |-> scraped_data]
        ELSE [success |-> TRUE, error |-> << >>, url_info |-> url_info,
              data |-> scraped_data]

\* {'success': False, 'error': ...} or {'success': True, 'data': scraped_data}
AddReturn(result) ==
    [Ret("add_property") EXCEPT
        !.success = result.success, !.error = result.error,
        !.data = IF result.success
                 THEN [status |-> result.data.status, price |-> result.data.price]
                 ELSE NoData]

\* a faulty add: it inserts the row whatever the fetch returned
InsertAlways(input_text, result) ==
    /\ nextId <= MaxProps
    /\ store' = store @@ (nextId :> NewRow(input_text, result.url_info, result.data, now))
    /\ nextId' = nextId + 1
    /\ now' = now + 1

\* the INSERT of add_property and what follows it, when the call succeeds
Insert(input_text, result) ==
    IF result.success
    THEN /\ nextId <= MaxProps
         /\ store' = store @@ (nextId :> NewRow(input_text, result.url_info, result.data, now))
         /\ nextId' = nextId + 1
         /\ now' = now + 1
    ELSE UNCHANGED <<store, nextId, now>>

\* the user adds one property (Quick Add)
AddProperty(s, input_text, outcome) ==
    LET result == add_property(input_text, outcome)
    IN  /\ pc[s] = "idle"
        /\ Insert(input_text, result)
        /\ ret' = AddReturn(result)
        /\ UNCHANGED <<settings, pc, call, batch>>

(***************************************************************************)
(* bulk_add_properties                                                     *)
(***************************************************************************)
BulkLists == UNION {[1..n -> Inputs] : n \in 0..MaxBulk}

BulkAddStart(s, inputs_list, callback) ==
    /\ pc[s] = "idle"
    /\ IF inputs_list = << >>
       THEN /\ ret' = Ret("bulk_add_properties")
            /\ UNCHANGED <<pc, batch>>
       ELSE /\ batch' = [batch EXCEPT ![s] =
                            [NoBatch EXCEPT !.op = "bulk_add_properties",
                                            !.items = inputs_list, !.idx = 1,
                                            !.callback = callback]]
            /\ pc' = [pc EXCEPT ![s] = "bulk_next"]
            /\ ret' = NoRet
    /\ UNCHANGED <<store, nextId, settings, now, call>>

\* a faulty pass: the entry of a failed item carries the trimmed text
BulkAddItemTrimmed(s, outcome) ==
    LET input_text == batch[s].items[batch[s].idx]
        result == add_property(input_text, outcome)
    IN  /\ pc[s] = "bulk_next"
        /\ Insert(input_text, result)
        /\ ret' = AddReturn(result)
        /\ batch' = [batch EXCEPT ![s] =
                        IF result.success
                        THEN [@ EXCEPT !.success = @ + 1]
                        ELSE [@ EXCEPT !.failed = @ + 1,
                                       !.errors = Append(@, Strip(input_text) \o ColonSpace \o result.error)]]
        /\ pc' = [pc EXCEPT ![s] = "bulk_sleep"]
        /\ UNCHANGED <<settings, call>>

\* one pass of the loop body up to time.sleep
BulkAddItem(s, outcome) ==
    LET input_text == batch[s].items[batch[s].idx]
        result == add_property(input_text, outcome)
    IN  /\ pc[s] = "bulk_next"
        /\ Insert(input_text, result)
        /\ ret' = AddReturn(result)
        /\ batch' = [batch EXCEPT ![s] =
                        IF result.success
                        THEN [@ EXCEPT !.success = @ + 1]
                        ELSE [@ EXCEPT !.failed = @ + 1,
                                       !.errors = Append(@, input_text \o ColonSpace \o result.error)]]
        /\ pc' = [pc EXCEPT ![s] = "bulk_sleep"]
        /\ UNCHANGED <<settings, call>>

\* time.sleep(2), then the next pass or the return
BulkSleep(s) ==
    /\ pc[s] = "bulk_sleep"
    /\ IF batch[s].idx < Len(batch[s].items)
       THEN /\ batch' = [batch EXCEPT ![s].idx = @ + 1]
            /\ pc' = [pc EXCEPT ![s] = "bulk_next"]
            /\ ret' = NoRet
       ELSE /\ ret' = [Ret("bulk_add_properties") EXCEPT
                          !.added = batch[s].success, !.failed = batch[s].failed,
                          !.errors = batch[s].errors]
            /\ batch' = [batch EXCEPT ![s] = NoBatch]
            /\ pc' = [pc EXCEPT ![s] = "idle"]
    /\ UNCHANGED <<store, nextId, settings, now, call>>

(***************************************************************************)
(* delete_property                                                         *)
(***************************************************************************)
Ids == 1..MaxProps

DeleteProperty(s, property_id) ==
    /\ pc[s] = "idle"
    /\ store' = [i \in DOMAIN store \ {property_id} |-> store[i]]
    /\ ret' = Ret("delete_property")
    /\ UNCHANGED <<nextId, settings, now, pc, call, batch>>

(***************************************************************************)
(* refresh_property                                                        *)
(***************************************************************************)
\* refresh_property up to its first return or to the call of scrape_property:
\* the SELECT and convert_input_to_url
RefreshRead(property_id) ==
    IF property_id \notin DOMAIN store
    THEN [proceed |-> FALSE, error |-> ErrNotFound, locals |-> NoCall]
    ELSE LET row == store[property_id]
             url_info == Resolved[row.input_text]
             locals == [property_id |-> property_id, input_text |-> row.input_text,
                        old_status |-> row.status, url |-> url_info.url,
                        source |-> url_info.source]
         IN  IF ~url_info.success
             THEN [proceed |-> FALSE, error |-> url_info.error, locals |-> locals]
             ELSE [proceed |-> TRUE, error |-> << >>, locals |-> locals]

\* a faulty write: INSERT OR REPLACE, a row that is gone is stored again
RefreshWriteUpsert(locals, scraped_data, t) ==
    IF locals.property_id \in DOMAIN store
    THEN [i \in DOMAIN store |->
            IF i = locals.property_id
            THEN UpdatedRow(store[i], [url |-> locals.url, source |-> locals.source],
                            scraped_data, locals.old_status, t)
            ELSE store[i]]
    ELSE store @@ (locals.property_id :>
                      NewRow(locals.input_text, [url |-> locals.url, source |-> locals.source],
                             scraped_data, t))

\* a faulty UPDATE: its WHERE clause is missing, every row is written
RefreshWriteEvery(locals, scraped_data, t) ==
    [i \in DOMAIN store |->
        UpdatedRow(store[i], [url |-> locals.url, source |-> locals.source],
                   scraped_data, locals.old_status, t)]

\* the UPDATE ... WHERE id = property_id: it changes the row the table holds
\* now, if it holds one
RefreshWrite(locals, scraped_data, t) ==
    [i \in DOMAIN store |->
        IF i = locals.property_id
        THEN UpdatedRow(store[i], [url |-> locals.url, source |-> locals.source],
                        scraped_data, locals.old_status, t)
        ELSE store[i]]

\* a faulty failure path: it records the failed attempt on the row
RefreshAbortMarked(locals) ==
    [i \in DOMAIN store |->
        IF i = locals.property_id
        THEN [store[i] EXCEPT !.last_checked = now, !.notes = ScrapingFailed]
        ELSE store[i]]

\* the table after a refresh_property call that returns an error: the
\* connection is closed, nothing was executed on it but the SELECT
RefreshAbort(locals) == store

\* the return value of a refresh_property call that failed
RefreshFailed(error) ==
    [Ret("refresh_property") EXCEPT !.success = FALSE, !.error = error]

\* a faulty loop: it sleeps only after a refresh that found a change
AfterRefreshNoDelay(s, status_changed) ==
    IF pc[s] \in {"idle", "refresh_fetch"}
    THEN /\ pc' = [pc EXCEPT ![s] = "idle"]
         /\ UNCHANGED batch
    ELSE IF ~status_changed /\ batch[s].idx < Len(batch[s].items)
    THEN /\ pc' = [pc EXCEPT ![s] = "rall_next"]
         /\ batch' = [batch EXCEPT ![s].idx = @ + 1]
    ELSE /\ pc' = [pc EXCEPT ![s] = "rall_sleep"]
         /\ batch' = [batch EXCEPT ![s].changes = IF status_changed THEN @ + 1 ELSE @]

\* a faulty loop: it tries an item again whose refresh found no change
AfterRefreshAgain(s, status_changed) ==
    IF pc[s] \in {"idle", "refresh_fetch"}
    THEN /\ pc' = [pc EXCEPT ![s] = "idle"]
         /\ UNCHANGED batch
    ELSE IF ~status_changed /\ pc[s] = "rall_fetch" /\ batch[s].changes = 0
    THEN /\ pc' = [pc EXCEPT ![s] = "rall_next"]
         /\ batch' = [batch EXCEPT ![s].changes = 0]
    ELSE /\ pc' = [pc EXCEPT ![s] = "rall_sleep"]
         /\ batch' = [batch EXCEPT ![s].changes = IF status_changed THEN @ + 1 ELSE @]

\* a faulty loop: it counts every item as a change
AfterRefreshCounted(s, status_changed) ==
    IF pc[s] \in {"idle", "refresh_fetch"}
    THEN /\ pc' = [pc EXCEPT ![s] = "idle"]
         /\ UNCHANGED batch
    ELSE /\ pc' = [pc EXCEPT ![s] = "rall_sleep"]
         /\ batch' = [batch EXCEPT ![s].changes = @ + 1]

\* where the caller of refresh_property goes on after the call returned
AfterRefresh(s, status_changed) ==
    IF pc[s] \in {"idle", "refresh_fetch"}
    THEN /\ pc' = [pc EXCEPT ![s] = "idle"]
         /\ UNCHANGED batch
    ELSE /\ pc' = [pc EXCEPT ![s] = "rall_sleep"]
         /\ batch' = [batch EXCEPT ![s].changes = IF status_changed THEN @ + 1 ELSE @]

\* the call up to scrape_property
BeginRefresh(s, property_id) ==
    LET read == RefreshRead(property_id)
    IN  IF read.proceed
        THEN /\ call' = [call EXCEPT ![s] = read.locals]
             /\ pc' = [pc EXCEPT ![s] = IF pc[s] = "idle" THEN "refresh_fetch" ELSE "rall_fetch"]
             /\ ret' = NoRet
             /\ UNCHANGED batch
        ELSE /\ ret' = RefreshFailed(read.error)
             /\ AfterRefresh(s, FALSE)
             /\ UNCHANGED call

\* the user refreshes one property (the card's button)
RefreshProperty(s, property_id) ==
    /\ pc[s] = "idle"
    /\ BeginRefresh(s, property_id)
    /\ UNCHANGED <<store, nextId, settings, now>>

\* scrape_property returns, and the call runs to its end
RefreshFetch(s, outcome) ==
    LET locals == call[s]
        scraped_data == Scraped[locals.source, outcome]
        status_changed == locals.old_status # scraped_data.status
    IN  /\ pc[s] \in {"refresh_fetch", "rall_fetch"}
        /\ IF ~scraped_data.success
           THEN /\ ret' = RefreshFailed(scraped_data.error)
                /\ AfterRefresh(s, FALSE)
                /\ store' = RefreshAbort(locals)
                /\ UNCHANGED now
           ELSE /\ store' = RefreshWrite(locals, scraped_data, now)
                /\ now' = now + 1
                /\ ret' = [Ret("refresh_property") EXCEPT
                              !.status_changed = status_changed]
                /\ AfterRefresh(s, status_changed)
        /\ call' = [call EXCEPT ![s] = NoCall]
        /\ UNCHANGED <<nextId, settings>>

(***************************************************************************)
(* refresh_all_properties_silent, refresh_all_properties_ui                *)
(***************************************************************************)
\* ids in ascending order
RECURSIVE Ascending(_)
Ascending(S) ==
    IF S = {} THEN << >>
    ELSE LET m == CHOOSE x \in S : \A y \in S : x <= y
         IN  <<m>> \o Ascending(S \ {m})
Reverse(seq) == [i \in DOMAIN seq |-> seq[Len(seq) + 1 - i]]

\* df['id'] of get_all_properties(): ORDER BY created_at DESC.  Ids are handed
\* out in the order of creation.
get_all_properties == Reverse(Ascending(DOMAIN store))

RefreshAllOps == {"refresh_all_properties_silent", "refresh_all_properties_ui"}

RefreshAllStart(s, op) ==
    LET df == get_all_properties
    IN  /\ pc[s] = "idle"
        /\ IF df = << >>
           THEN /\ ret' = Ret(op)
                /\ UNCHANGED <<pc, batch>>
           ELSE /\ batch' = [batch EXCEPT ![s] =
                                [NoBatch EXCEPT !.op = op, !.items = df, !.idx = 1]]
                /\ pc' = [pc EXCEPT ![s] = "rall_next"]
                /\ ret' = NoRet
        /\ UNCHANGED <<store, nextId, settings, now, call>>

\* the loop body calls refresh_property(row['id'])
RefreshAllItem(s) ==
    /\ pc[s] = "rall_next"
    /\ BeginRefresh(s, batch[s].items[batch[s].idx])
    /\ UNCHANGED <<store, nextId, settings, now>>

\* a faulty pair of loops: the interactive one returns without set_setting
RefreshAllSleepApart(s) ==
    /\ pc[s] = "rall_sleep"
    /\ IF batch[s].idx < Len(batch[s].items)
       THEN /\ batch' = [batch EXCEPT ![s].idx = @ + 1]
            /\ pc' = [pc EXCEPT ![s] = "rall_next"]
            /\ ret' = NoRet
            /\ UNCHANGED <<settings, now>>
       ELSE /\ settings' = IF batch[s].op = "refresh_all_properties_ui"
                           THEN settings ELSE set_setting("last_full_refresh", now)
            /\ now' = now + 1
            /\ ret' = [Ret(batch[s].op) EXCEPT
                          !.count = Len(batch[s].items), !.changes = batch[s].changes]
            /\ batch' = [batch EXCEPT ![s] = NoBatch]
            /\ pc' = [pc EXCEPT ![s] = "idle"]
    /\ UNCHANGED <<store, nextId, call>>

\* time.sleep(2), then the next pass, or set_setting and the return
RefreshAllSleep(s) ==
    /\ pc[s] = "rall_sleep"
    /\ IF batch[s].idx < Len(batch[s].items)
       THEN /\ batch' = [batch EXCEPT ![s].idx = @ + 1]
            /\ pc' = [pc EXCEPT ![s] = "rall_next"]
            /\ ret' = NoRet
            /\ UNCHANGED <<settings, now>>
       ELSE /\ settings' = set_setting("last_full_refresh", now)
            /\ now' = now + 1
            /\ ret' = [Ret(batch[s].op) EXCEPT
                          !.count = Len(batch[s].items), !.changes = batch[s].changes]
            /\ batch' = [batch EXCEPT ![s] = NoBatch]
            /\ pc' = [pc EXCEPT ![s] = "idle"]
    /\ UNCHANGED <<store, nextId, call>>


(***************************************************************************)
(* export_to_csv                                                           *)
(***************************************************************************)
\* the download button: a SELECT of all rows, nothing is written
ExportToCsv(s) ==
    /\ pc[s] = "idle"
    /\ ret' = [Ret("export_to_csv") EXCEPT !.success = get_all_properties # << >>,
                                           !.count = Len(get_all_properties)]
    /\ UNCHANGED <<store, nextId, settings, now, pc, call, batch>>

(***************************************************************************)
(* sync_to_zoho_crm                                                        *)
(***************************************************************************)
\* the id Zoho gives a record it creates
ZohoId == <<"Z","1">>
\* what Zoho answers to the POST or PUT of one row: a status code, or an
\* exception of requests
ZohoAnswers == {"201", "200", "400", "exception"}

\* ready: whether an access token and a field mapping are there
SyncStart(s, ready) ==
    LET df == get_all_properties
    IN  /\ pc[s] = "idle"
        /\ IF ~ready \/ df = << >>
           THEN /\ ret' = [Ret("sync_to_zoho_crm") EXCEPT !.success = ready]
                /\ UNCHANGED <<pc, batch>>
           ELSE /\ batch' = [batch EXCEPT ![s] =
                                [NoBatch EXCEPT !.op = "sync_to_zoho_crm", !.items = df,
                                                !.zoho_ids = [i \in DOMAIN df |-> store[df[i]].zoho_id],
                                                !.idx = 1]]
                /\ pc' = [pc EXCEPT ![s] = "sync_next"]
                /\ ret' = NoRet
        /\ UNCHANGED <<store, nextId, settings, now, call>>

\* a faulty sync: it stamps the rows it has pushed as checked
SyncItemStamping(s, answer) ==
    LET b == batch[s]
        property_id == b.items[b.idx]
        created == b.zoho_ids[b.idx] = Null /\ answer = "201"
        ok == answer \in {"200", "201"}
        synced == IF ok THEN b.success + 1 ELSE b.success
        failed == IF ok THEN b.failed ELSE b.failed + 1
    IN  /\ pc[s] = "sync_next"
        /\ store' = IF created
                    THEN [i \in DOMAIN store |->
                            IF i = property_id THEN [store[i] EXCEPT !.zoho_id = ZohoId, !.last_checked = now]
                            ELSE store[i]]
                    ELSE store
        /\ IF b.idx < Len(b.items)
           THEN /\ batch' = [batch EXCEPT ![s] =
                                [b EXCEPT !.idx = @ + 1, !.success = synced, !.failed = failed]]
                /\ ret' = NoRet
                /\ UNCHANGED <<pc, settings, now>>
           ELSE /\ settings' = set_setting("zoho_last_sync", now)
                /\ now' = now + 1
                /\ ret' = [Ret("sync_to_zoho_crm") EXCEPT
                              !.count = Len(b.items), !.added = synced, !.failed = failed]
                /\ batch' = [batch EXCEPT ![s] = NoBatch]
                /\ pc' = [pc EXCEPT ![s] = "idle"]
        /\ UNCHANGED <<nextId, call>>

\* one pass of the loop; after the last one, set_setting and the return
SyncItem(s, answer) ==
    LET b == batch[s]
        property_id == b.items[b.idx]
        created == b.zoho_ids[b.idx] = Null /\ answer = "201"
        ok == answer \in {"200", "201"}
        synced == IF ok THEN b.success + 1 ELSE b.success
        failed == IF ok THEN b.failed ELSE b.failed + 1
    IN  /\ pc[s] = "sync_next"
        /\ store' = IF created
                    THEN [i \in DOMAIN store |->
                            IF i = property_id THEN [store[i] EXCEPT !.zoho_id = ZohoId]
                            ELSE store[i]]
                    ELSE store
        /\ IF b.idx < Len(b.items)
           THEN /\ batch' = [batch EXCEPT ![s] =
                                [b EXCEPT !.idx = @ + 1, !.success = synced, !.failed = failed]]
                /\ ret' = NoRet
                /\ UNCHANGED <<pc, settings, now>>
           ELSE /\ settings' = set_setting("zoho_last_sync", now)
                /\ now' = now + 1
                /\ ret' = [Ret("sync_to_zoho_crm") EXCEPT
                              !.count = Len(b.items), !.added = synced, !.failed = failed]
                /\ batch' = [batch EXCEPT ![s] = NoBatch]
                /\ pc' = [pc EXCEPT ![s] = "idle"]
        /\ UNCHANGED <<nextId, call>>

(***************************************************************************)
(* Specifications.  Each browser session runs its script on a thread of    *)
(* its own; a step is one function run up to its next blocking call (the   *)
(* GET of the fetcher, time.sleep, the request to Zoho).                   *)
(***************************************************************************)
\* the steps of a specification leave history alone unless it follows it, and
\* the scratch of the function evaluations
Quiet == UNCHANGED <<history, arg, out>>

\* Spec: two sessions add, refresh and delete single properties
InTime == now <= MaxTime

Next ==
    \E s \in Sessions :
        \/ \E input_text \in Inputs, outcome \in Outcomes :
              InTime /\ AddProperty(s, input_text, outcome) /\ Quiet
        \/ \E property_id \in Ids : InTime /\ DeleteProperty(s, property_id) /\ Quiet
        \/ \E property_id \in Ids : InTime /\ RefreshProperty(s, property_id) /\ Quiet
        \/ \E outcome \in Outcomes : InTime /\ RefreshFetch(s, outcome) /\ Quiet

Spec == Init /\ [][Next]_vars

\* SpecSeq: the same operations, one at a time: a session starts or goes on
\* with a call only while no other session is inside one
Alone(s) == \A t \in Sessions \ {s} : pc[t] = "idle"

NextSeq ==
    \E s \in Sessions :
        \/ \E input_text \in Inputs, outcome \in Outcomes :
              InTime /\ Alone(s) /\ AddProperty(s, input_text, outcome) /\ Quiet
        \/ \E property_id \in Ids : InTime /\ Alone(s) /\ DeleteProperty(s, property_id) /\ Quiet
        \/ \E property_id \in Ids : InTime /\ Alone(s) /\ RefreshProperty(s, property_id) /\ Quiet
        \/ \E outcome \in Outcomes : InTime /\ Alone(s) /\ RefreshFetch(s, outcome) /\ Quiet

SpecSeq == Init /\ [][NextSeq]_vars

(***************************************************************************)
(* Properties.                                                             *)
(***************************************************************************)
\* session s is inside refresh_property, past its SELECT
InRefresh(s) == pc[s] \in {"refresh_fetch", "rall_fetch"}
\* in this step the refresh_property call of session s returns success: it
\* has run its UPDATE
RefreshSucceeds(s) ==
    InRefresh(s) /\ ~InRefresh(s)' /\ ret'.op = "refresh_property" /\ ret'.success


\* One session runs the batch operations next to the single ones: the batch
\* refresh, the bulk upload and the CRM sync.
InTimeBatch == now <= MaxTimeBatch
BatchInputs == {InMlsPrefixed, InInvalid}
BatchLists == UNION {[1..n -> BatchInputs] : n \in 0..MaxBulk}
BatchOutcomes ==
    {TimeoutOutcome, ResponseOutcome(200, PageActive, NoMatch),
     ResponseOutcome(200, PagePending, NoMatch)}
NextBatch ==
    \E s \in {1} :
        \/ \E input_text \in BatchInputs, outcome \in BatchOutcomes :
              InTimeBatch /\ AddProperty(s, input_text, outcome) /\ Quiet
        \/ \E property_id \in Ids : InTimeBatch /\ DeleteProperty(s, property_id) /\ Quiet
        \/ \E property_id \in Ids : InTimeBatch /\ RefreshProperty(s, property_id) /\ Quiet
        \/ \E outcome \in BatchOutcomes : InTimeBatch /\ RefreshFetch(s, outcome) /\ Quiet
        \/ \E inputs_list \in BatchLists, callback \in BOOLEAN :
              InTimeBatch /\ BulkAddStart(s, inputs_list, callback) /\ Quiet
        \/ \E outcome \in BatchOutcomes : InTimeBatch /\ BulkAddItem(s, outcome) /\ Quiet
        \/ InTimeBatch /\ BulkSleep(s) /\ Quiet
        \/ \E op \in RefreshAllOps : InTimeBatch /\ RefreshAllStart(s, op) /\ Quiet
        \/ InTimeBatch /\ RefreshAllItem(s) /\ Quiet
        \/ InTimeBatch /\ RefreshAllSleep(s) /\ Quiet
        \/ \E ready \in BOOLEAN : InTimeBatch /\ SyncStart(s, ready) /\ Quiet
        \/ \E answer \in ZohoAnswers : InTimeBatch /\ SyncItem(s, answer) /\ Quiet
        \/ InTimeBatch /\ ExportToCsv(s) /\ Quiet
SpecBatch == Init /\ [][NextBatch]_vars

\* The batches to their end: one session starts adds, batch refreshes and
\* bulk adds while the clock is within MaxTimeBatch, and a batch that has
\* started runs on whatever the clock says.  A GET returns (requests.get has
\* timeout=10) and a time.sleep(2) elapses: the steps inside a call are
\* weakly fair.
FitsTable(inputs_list) == nextId + Len(inputs_list) - 1 <= MaxProps
\* the answers of the site: a timeout, the two pages of SpecBatch and the
\* page without a status
LiveOutcomes == BatchOutcomes \cup {ResponseOutcome(200, PageBlank, NoMatch)}
FetchReturns(s) == \E outcome \in LiveOutcomes : RefreshFetch(s, outcome) /\ Quiet
BulkItemReturns(s) == \E outcome \in LiveOutcomes : BulkAddItem(s, outcome) /\ Quiet
NextLive ==
    \E s \in {1} :
        \/ \E input_text \in BatchInputs, outcome \in LiveOutcomes :
              InTimeBatch /\ AddProperty(s, input_text, outcome) /\ Quiet
        \/ \E property_id \in Ids : InTimeBatch /\ RefreshProperty(s, property_id) /\ Quiet
        \/ FetchReturns(s)
        \/ \E inputs_list \in BatchLists, callback \in BOOLEAN :
              /\ InTimeBatch /\ FitsTable(inputs_list)
              /\ BulkAddStart(s, inputs_list, callback) /\ Quiet
        \/ BulkItemReturns(s)
        \/ BulkSleep(s) /\ Quiet
        \/ \E op \in RefreshAllOps : InTimeBatch /\ RefreshAllStart(s, op) /\ Quiet
        \/ RefreshAllItem(s) /\ Quiet
        \/ RefreshAllSleep(s) /\ Quiet
Fairness ==
    /\ WF_vars(FetchReturns(1))
    /\ WF_vars(BulkItemReturns(1))
    /\ WF_vars(BulkSleep(1) /\ Quiet)
    /\ WF_vars(RefreshAllItem(1) /\ Quiet)
    /\ WF_vars(RefreshAllSleep(1) /\ Quiet)
SpecLive == Init /\ [][NextLive]_vars /\ Fairness

\* A delete next to the refreshes: session 1 adds listings, refreshes one and
\* runs batch refreshes, session 2 deletes listings, at any point of a call
\* of session 1.
NextDelete ==
    \/ \E input_text \in BatchInputs, outcome \in BatchOutcomes :
          InTimeBatch /\ AddProperty(1, input_text, outcome) /\ Quiet
    \/ \E property_id \in Ids : InTimeBatch /\ RefreshProperty(1, property_id) /\ Quiet
    \/ \E outcome \in BatchOutcomes : InTimeBatch /\ RefreshFetch(1, outcome) /\ Quiet
    \/ \E op \in RefreshAllOps : InTimeBatch /\ RefreshAllStart(1, op) /\ Quiet
    \/ InTimeBatch /\ RefreshAllItem(1) /\ Quiet
    \/ InTimeBatch /\ RefreshAllSleep(1) /\ Quiet
    \/ \E property_id \in Ids : InTimeBatch /\ DeleteProperty(2, property_id) /\ Quiet
SpecDelete == Init /\ [][NextDelete]_vars

\* The life of the first listing: two sessions add it and refresh it, and
\* history follows the statuses its successful add and refreshes extracted
\* and counts the writes of its last_changed.
InTimeHistory == now <= MaxTimeHistory
HistoryOutcomes ==
    {TimeoutOutcome} \cup {ResponseOutcome(200, html, NoMatch) : html \in Pages}
Follow ==
    LET created == ret'.op = "add_property" /\ ret'.success /\ 1 \in DOMAIN store'
        refreshed == /\ ret'.op = "refresh_property" /\ ret'.success
                     /\ 1 \in DOMAIN store
    IN  /\ UNCHANGED <<arg, out>>
        /\ history' =
            IF created
            THEN [statuses |-> <<store'[1].status>>, writes |-> 0]
            ELSE IF refreshed
            THEN [statuses |-> Append(history.statuses, store'[1].status),
                  writes |-> IF store'[1].last_changed # store[1].last_changed
                             THEN history.writes + 1 ELSE history.writes]
            ELSE history
NextHistory ==
    \E s \in Sessions :
        \/ \E outcome \in HistoryOutcomes :
              /\ InTimeHistory /\ store = << >> /\ nextId = 1
              /\ AddProperty(s, InMlsPrefixed, outcome) /\ Follow
        \/ InTimeHistory /\ RefreshProperty(s, 1) /\ Follow
        \/ \E outcome \in HistoryOutcomes : InTimeHistory /\ RefreshFetch(s, outcome) /\ Follow
SpecHistory == Init /\ [][NextHistory]_vars
\* the same, the sessions taking turns
NextHistorySeq ==
    \E s \in Sessions :
        \/ \E outcome \in HistoryOutcomes :
              /\ InTimeHistory /\ store = << >> /\ nextId = 1 /\ Alone(s)
              /\ AddProperty(s, InMlsPrefixed, outcome) /\ Follow
        \/ InTimeHistory /\ Alone(s) /\ RefreshProperty(s, 1) /\ Follow
        \/ \E outcome \in HistoryOutcomes :
              InTimeHistory /\ Alone(s) /\ RefreshFetch(s, outcome) /\ Follow
SpecHistorySeq == Init /\ [][NextHistorySeq]_vars

(***************************************************************************)
(* The pure functions on arguments of their own: the resolver and the      *)
(* status normalizer are applied to one argument and the value is kept.    *)
(***************************************************************************)
\* whitespace around an input
Pads ==
    { << >>,
     <<" ">> }
\* numbers of 5, 6, 7, 10 and 11 digits
Numbers ==
    { <<"1","2","3","4","5">>,
     <<"1","2","3","4","5","6">>,
     <<"2","0","5","3","0","7","8">>,
     <<"1","2","3","4","5","6","7","8","9","0">>,
     <<"1","2","3","4","5","6","7","8","9","0","1">> }
\* what precedes the number
MlsPrefixes ==
    { << >>,
     <<"M","L","S">>,
     <<"m","l","s">>,
     <<"M","l","s">>,
     <<"M","L","S"," ">>,
     <<"M","L">>,
     <<"M","L","S","#">> }
MlsArgs == {l \o q \o n \o r : l \in Pads, q \in MlsPrefixes, n \in Numbers, r \in Pads}
\* addresses, near addresses and other inputs that are no URL of the code
TextArgs ==
    { <<"1","2","3"," ","M","a","i","n"," ","S","t",","," ","S","p","r","i","n","g","f","i","e","l","d">>,
     <<"1","2"," ",",","a">>,
     <<"1","2","a",",">>,
     <<"M","a","i","n"," ","S","t"," ","1","2",","," ","X">>,
     <<"1","2","3"," ","M","a","i","n"," ","S","t">>,
     <<"1","\n","A",",">>,
     <<"7",",">>,
     <<"n","o","t","-","a","-","l","i","s","t","i","n","g">>,
     << >>,
     <<"z","i","l","l","o","w",".","c","o","m","/","h","o","m","e","d","e","t","a","i","l","s","/","7">>,
     <<"H","T","T","P","S",":","/","/","w","w","w",".","z","i","l","l","o","w",".","c","o","m","/","7">>,
     <<"f","t","p",":","/","/","z","i","l","l","o","w",".","c","o","m","/","7">> }
\* URLs: known hosts, unknown hosts, a known name in the path, the query or inside the host
UrlArgs ==
    { <<"h","t","t","p","s",":","/","/","w","w","w",".","z","i","l","l","o","w",".","c","o","m","/","h","o","m","e","d","e","t","a","i","l","s","/","7">>,
     <<"h","t","t","p",":","/","/","u","t","a","h","r","e","a","l","e","s","t","a","t","e",".","c","o","m","/","1">>,
     <<"h","t","t","p","s",":","/","/","w","w","w",".","u","t","a","h","r","e","a","l","e","s","t","a","t","e",".","c","o","m","/","r","e","p","o","r","t","/","9">>,
     <<"h","t","t","p","s",":","/","/","e","x","a","m","p","l","e",".","c","o","m","/">>,
     <<"h","t","t","p","s",":","/","/","e","x","a","m","p","l","e",".","c","o","m","/","?","q","=","z","i","l","l","o","w",".","c","o","m">>,
     <<"h","t","t","p","s",":","/","/","e","x","a","m","p","l","e",".","c","o","m","/","u","t","a","h","r","e","a","l","e","s","t","a","t","e",".","c","o","m">>,
     <<"h","t","t","p","s",":","/","/","z","i","l","l","o","w",".","c","o","m",".","e","v","i","l",".","i","o","/","x">>,
     <<"h","t","t","p","s",":","/","/","n","o","t","z","i","l","l","o","w",".","c","o","m","/">>,
     <<"h","t","t","p","s",":","/","/","W","W","W",".","Z","I","L","L","O","W",".","C","O","M","/","7">>,
     <<"h","t","t","p",":","/","/","e","x","a","m","p","l","e",".","c","o","m","/","1","2","3"," ","M","a","i","n"," ","S","t",","," ","X">>,
     <<"h","t","t","p","s",":","/","/","z","i","l","l","o","w",".","c","o","m">>,
     <<"h","t","t","p","s",":","/","/","1","9","2",".","1","6","8",".","0",".","1","/","7">> }
ResolverArgs == MlsArgs \cup TextArgs \cup UrlArgs \cup {<<" ">> \o u \o <<"\n">> : u \in UrlArgs}
\* the keys of status_map as they are, in lower case, and capitalized between whitespace
KnownTokens ==
    { <<"F","O","R","_","S","A","L","E">>,
     <<"f","o","r","_","s","a","l","e">>,
     <<" ","F","o","r","_","S","a","l","e","\t">>,
     <<"A","C","T","I","V","E">>,
     <<"a","c","t","i","v","e">>,
     <<" ","A","c","t","i","v","e","\t">>,
     <<"F","O","R"," ","S","A","L","E">>,
     <<"f","o","r"," ","s","a","l","e">>,
     <<" ","F","o","r"," ","S","a","l","e","\t">>,
     <<"O","F","F","_","M","A","R","K","E","T">>,
     <<"o","f","f","_","m","a","r","k","e","t">>,
     <<" ","O","f","f","_","M","a","r","k","e","t","\t">>,
     <<"O","F","F"," ","M","A","R","K","E","T">>,
     <<"o","f","f"," ","m","a","r","k","e","t">>,
     <<" ","O","f","f"," ","M","a","r","k","e","t","\t">>,
     <<"P","E","N","D","I","N","G">>,
     <<"p","e","n","d","i","n","g">>,
     <<" ","P","e","n","d","i","n","g","\t">>,
     <<"U","N","D","E","R"," ","C","O","N","T","R","A","C","T">>,
     <<"u","n","d","e","r"," ","c","o","n","t","r","a","c","t">>,
     <<" ","U","n","d","e","r"," ","C","o","n","t","r","a","c","t","\t">>,
     <<"C","O","N","T","I","N","G","E","N","T">>,
     <<"c","o","n","t","i","n","g","e","n","t">>,
     <<" ","C","o","n","t","i","n","g","e","n","t","\t">>,
     <<"S","O","L","D">>,
     <<"s","o","l","d">>,
     <<" ","S","o","l","d","\t">>,
     <<"C","L","O","S","E","D">>,
     <<"c","l","o","s","e","d">>,
     <<" ","C","l","o","s","e","d","\t">>,
     <<"C","O","M","I","N","G","_","S","O","O","N">>,
     <<"c","o","m","i","n","g","_","s","o","o","n">>,
     <<" ","C","o","m","i","n","g","_","S","o","o","n","\t">>,
     <<"C","O","M","I","N","G"," ","S","O","O","N">>,
     <<"c","o","m","i","n","g"," ","s","o","o","n">>,
     <<" ","C","o","m","i","n","g"," ","S","o","o","n","\t">>,
     <<"F","O","R","_","R","E","N","T">>,
     <<"f","o","r","_","r","e","n","t">>,
     <<" ","F","o","r","_","R","e","n","t","\t">>,
     <<"F","O","R"," ","R","E","N","T">>,
     <<"f","o","r"," ","r","e","n","t">>,
     <<" ","F","o","r"," ","R","e","n","t","\t">> }
\* tokens the table does not list, and the empty one
OtherTokens ==
    { <<"B","a","c","k","u","p">>,
     <<"F","O","R"," "," ","S","A","L","E">>,
     <<"F","O","R","-","S","A","L","E">>,
     <<" ">>,
     <<"\n">>,
     <<"A","c","t","i","v","e"," ","U","n","d","e","r"," ","C","o","n","t","r","a","c","t">>,
     <<"s","o","l","d","!">>,
     <<"S","o","l"," ","d">>,
     <<"R","E","C","E","N","T","L","Y","_","S","O","L","D">>,
     <<"F","o","r"," ","S","a","l","e"," ","b","y"," ","O","w","n","e","r">>,
     <<"A","C","T","I","V","E",".">>,
     <<" ","B","a","c","k","u","p"," ">>,
     << >> }
StatusArgs == KnownTokens \cup OtherTokens

\* the argument is chosen, nothing is evaluated yet
InitFunctions ==
    /\ InitProgram
    /\ arg \in ResolverArgs \cup StatusArgs \cup Contents
    /\ out = NoOut
Returned(fn, value) == [fn |-> fn, value |-> value]
ApplyResolver ==
    /\ out = NoOut /\ arg \in ResolverArgs
    /\ out' = Returned("convert_input_to_url", convert_input_to_url(arg))
    /\ UNCHANGED <<store, nextId, settings, now, pc, call, batch, ret, history, arg>>
ApplyNormalizer ==
    /\ out = NoOut /\ arg \in StatusArgs
    /\ out' = Returned("normalize_status", normalize_status(arg))
    /\ UNCHANGED <<store, nextId, settings, now, pc, call, batch, ret, history, arg>>
ApplyZillow ==
    /\ out = NoOut /\ arg \in Contents
    /\ out' = Returned("scrape_zillow",
                       [result |-> scrape_zillow(ContentPage(arg), << >>),
                        address |-> ZillowAddress(arg)])
    /\ UNCHANGED <<store, nextId, settings, now, pc, call, batch, ret, history, arg>>
ApplyUtah ==
    /\ out = NoOut /\ arg \in Contents
    /\ out' = Returned("scrape_utah_realestate",
                       [result |-> scrape_utah_realestate(ContentPage(arg), << >>),
                        address |-> << >>])
    /\ UNCHANGED <<store, nextId, settings, now, pc, call, batch, ret, history, arg>>
\* the inputs that resolve, one for each source
Resolvable == {InMlsPrefixed, InZillow}
\* add_property meets a page with the content
AddContent ==
    /\ out = NoOut /\ arg \in Contents /\ store = << >>
    /\ \E input_text \in Resolvable :
          /\ AddProperty(1, input_text, ContentOutcome(arg))
          /\ out' = Returned("add_property", input_text)
    /\ UNCHANGED <<history, arg>>
\* a listing is there before the page with the content is met
AddFirst ==
    /\ out = NoOut /\ arg \in Contents /\ store = << >>
    /\ \E input_text \in Resolvable :
          AddProperty(1, input_text, ResponseOutcome(200, PageActive, NoMatch))
    /\ UNCHANGED <<history, arg, out>>
\* refresh_property of that listing, up to its GET
RefreshFirst ==
    /\ out = NoOut /\ arg \in Contents
    /\ RefreshProperty(1, 1)
    /\ UNCHANGED <<history, arg, out>>
\* the GET returns the page with the content
RefreshContent ==
    /\ out = NoOut /\ arg \in Contents
    /\ RefreshFetch(1, ContentOutcome(arg))
    /\ out' = Returned("refresh_property", call[1].input_text)
    /\ UNCHANGED <<history, arg>>
NextFunctions ==
    \/ ApplyResolver
    \/ ApplyNormalizer
    \/ ApplyZillow
    \/ ApplyUtah
    \/ AddContent
    \/ AddFirst
    \/ RefreshFirst
    \/ RefreshContent
SpecFunctions == InitFunctions /\ [][NextFunctions]_vars

\* Listings the table holds before and after the step
Kept == DOMAIN store \cap DOMAIN store'
\* in this step a refresh_property call starts: it runs its SELECT and goes on
RefreshBegins(s) == ~InRefresh(s) /\ InRefresh(s)'
\* in this step a refresh_property call returns an error
RefreshReturnsError == ret'.op = "refresh_property" /\ ~ret'.success
\* in this step an add_property call returns
AddReturnsError == ret'.op = "add_property" /\ ~ret'.success
AddReturnsSuccess == ret'.op = "add_property" /\ ret'.success

\* the errors of a refresh or an add that got as far as the GET
FetchErrors ==
    {ErrTimeout, ExcMsg, HttpWord \o <<"4","0","4">>, ScrapingFailed \o ExcMsg,
     ScrapingError \o ExcMsg}

\* what a refresh at time t that returned status_changed has made of the row
\* before, were the extracted status compared with the stored one
ReconcileAsClaimed(before, after, t, status_changed) ==
    /\ IF after.status # before.status
       THEN /\ after.previous_status = before.status
            /\ after.last_changed = t
            /\ status_changed
       ELSE /\ after.previous_status = before.previous_status
            /\ after.last_changed = before.last_changed
            /\ ~status_changed
    /\ (after.previous_status = before.previous_status)
          <=> (after.last_changed = before.last_changed)

\* C1: a successful refresh_property of a stored listing whose extracted
\* status differs from the stored status sets previous_status to the status
\* stored before, last_changed to the time of the refresh and returns
\* status_changed = true; when the two are equal it leaves status,
\* previous_status and last_changed as they were and returns
\* status_changed = false; previous_status and last_changed change together.
C1_StatusChangeDetected ==
    [][\A s \in Sessions :
          (RefreshSucceeds(s) /\ call[s].property_id \in DOMAIN store)
             => ReconcileAsClaimed(store[call[s].property_id], store'[call[s].property_id],
                                   now, ret'.status_changed)]_vars

\* C2: a listing created with status S1 and then refreshed with the
\* extracted statuses S1, S2, S2, S3 (pairwise different) has had its
\* last_changed written exactly twice and holds previous_status = S2.
C2_MonotonicHistory ==
    LET h == history.statuses
    IN  (/\ Len(h) = 5
         /\ h[1] = h[2] /\ h[3] = h[4]
         /\ h[1] # h[3] /\ h[3] # h[5] /\ h[1] # h[5]
         /\ 1 \in DOMAIN store)
           => /\ history.writes = 2
              /\ store[1].previous_status = h[3]
              /\ store[1].status = h[5]

\* C3: a refresh_property call that fails leaves every column of every
\* stored listing as it was: neither its SELECT nor its failing return
\* writes anything.
C3_FailedRefreshWritesNothing ==
    [][((\E s \in Sessions : RefreshBegins(s)) \/ RefreshReturnsError)
          => store' = store]_vars

\* a refresh of a stored listing has just failed at the GET or in the extractor
C3_Witness ==
    /\ ret.op = "refresh_property" /\ ~ret.success
    /\ ret.error = ScrapingFailed \o ExcMsg
    /\ \E id \in DOMAIN store : store[id].last_checked # NullTime /\ store[id].notes = Success

\* C4: an add_property call that fails inserts no row and returns
\* success = false with a reason.
C4_FailedAddInsertsNothing ==
    [][AddReturnsError
          => /\ store' = store
             /\ nextId' = nextId
             /\ ret'.error \in FetchErrors \cup {ErrInvalid, ErrUnsupported, ErrAddress}]_vars

\* an add has just failed at the GET after another one succeeded
C4_Witness ==
    /\ ret.op = "add_property" /\ ~ret.success
    /\ ret.error = ErrTimeout
    /\ DOMAIN store # {}

\* C5: in a batch (bulk_add_properties, refresh_all_properties_silent,
\* refresh_all_properties_ui) an item that fails adds one entry with the
\* item's input text to the error list and the batch goes on; the result
\* reports the error list and succeeded = attempted - failed.
C5_PartialFailureIsolation ==
    [][\A s \in Sessions :
          /\ (pc[s] = "bulk_next" /\ AddReturnsError)
                => /\ Len(batch'[s].errors) = Len(batch[s].errors) + 1
                   /\ Contains(batch'[s].errors[Len(batch'[s].errors)],
                               batch[s].items[batch[s].idx])
                   /\ pc'[s] = "bulk_sleep"
          /\ (pc[s] = "rall_fetch" /\ RefreshReturnsError)
                => /\ Len(batch'[s].errors) = Len(batch[s].errors) + 1
                   /\ Contains(batch'[s].errors[Len(batch'[s].errors)],
                               call[s].input_text)
                   /\ pc'[s] = "rall_sleep"
          /\ (pc[s] \in {"bulk_sleep", "rall_sleep"} /\ pc'[s] = "idle")
                => /\ ret'.errors = batch[s].errors
                   /\ ret'.failed = Len(batch[s].errors)
                   /\ ret'.added = Len(batch[s].items) - Len(batch[s].errors)]_vars

\* C6: the stored status of every listing is one of the seven canonical
\* values or 'Status Not Found'.
C6_StatusInVocabulary ==
    \A id \in DOMAIN store : store[id].status \in CanonicalStatuses \cup {StatusNotFound}

\* C7: a successful refresh_property whose extracted record equals the
\* stored one changes last_checked and no other column of the listing.
C7_NoOpRefreshKeepsRow ==
    [][\A s \in Sessions :
          LET id == call[s].property_id
          IN  (/\ RefreshSucceeds(s)
               /\ id \in Kept
               /\ store'[id].status = store[id].status
               /\ store'[id].price = store[id].price)
                 => store'[id] = [store[id] EXCEPT !.last_checked = now]]_vars

\* C8: no step changes the input_text of a stored listing: not a single
\* refresh, not a batch refresh, not a CRM sync, successful or failed.
C8_InputTextWrittenOnce ==
    [][\A id \in Kept : store'[id].input_text = store[id].input_text]_vars

\* a listing that was synced to the CRM and whose status a refresh changed,
\* at the return of a batch refresh
C8_Witness ==
    /\ ret.op \in RefreshAllOps /\ ret.count > 0
    /\ \E id \in DOMAIN store :
          /\ store[id].zoho_id = ZohoId
          /\ store[id].last_changed # NullTime
          /\ store[id].input_text = InMlsPrefixed

\* the url and source of every row are those of its input text
ResolutionHolds ==
    \A id \in DOMAIN store :
        LET url_info == Resolved[store[id].input_text]
        IN  /\ url_info.success
            /\ store[id].resolved_url = url_info.url
            /\ store[id].source = url_info.source

\* C9: every stored listing's resolved_url and source are what
\* convert_input_to_url returns for its input_text, and no step moves a
\* stored listing to another url or source.
C9_DeterministicResolution ==
    /\ []ResolutionHolds
    /\ [][\A id \in Kept :
             /\ store'[id].resolved_url = store[id].resolved_url
             /\ store'[id].source = store[id].source]_vars

\* a listing whose url is not its input text has been refreshed
C9_Witness ==
    \E id \in DOMAIN store :
        /\ store[id].last_checked > 1
        /\ store[id].input_text = InMlsPrefixed
        /\ store[id].resolved_url # store[id].input_text
        /\ ret.op = "refresh_property" /\ ret.success

\* C10: the row a successful add_property inserts holds the extracted
\* fields, previous_status and last_changed unset and last_checked = the time
\* of the add; previous_status and last_changed of a listing stay unset up to
\* a refresh_property that returns status_changed = true.
C10_CreatedUnchanged ==
    [][/\ AddReturnsSuccess
          => /\ DOMAIN store' = DOMAIN store \cup {nextId}
             /\ nextId \notin DOMAIN store
             /\ store'[nextId].status = ret'.data.status
             /\ store'[nextId].price = ret'.data.price
             /\ store'[nextId].previous_status = Null
             /\ store'[nextId].last_changed = NullTime
             /\ store'[nextId].last_checked = now
       /\ \A id \in Kept :
             (/\ store[id].previous_status = Null /\ store[id].last_changed = NullTime
              /\ ~(ret'.op = "refresh_property" /\ ret'.success /\ ret'.status_changed))
                => store'[id].previous_status = Null /\ store'[id].last_changed = NullTime]_vars

\* a listing has been refreshed without a status change since its creation
C10_Witness ==
    \E id \in DOMAIN store :
        /\ store[id].previous_status = Null /\ store[id].last_changed = NullTime
        /\ store[id].last_checked > 1
        /\ ret.op = "refresh_property" /\ ret.success /\ ~ret.status_changed

\* in this step a batch function returns
BatchRefreshReturns == ret'.op \in RefreshAllOps
BulkAddReturns == ret'.op = "bulk_add_properties"

\* C11 as stated: every batch run, a full refresh or a bulk import, of any
\* number of items, records its completion time in last_full_refresh.
C11_EveryBatchRecordsCompletion ==
    [][(BatchRefreshReturns \/ BulkAddReturns)
          => settings'.last_full_refresh = now]_vars

\* C11: a full refresh over a stored set that is not empty records its
\* completion time in last_full_refresh, whatever the outcomes of its items;
\* a full refresh over an empty set and a bulk import leave the setting as
\* it was, as does every other step.
C11_FullRefreshRecordsCompletion ==
    [][IF BatchRefreshReturns /\ ret'.count > 0
       THEN settings'.last_full_refresh = now
       ELSE settings'.last_full_refresh = settings.last_full_refresh]_vars

\* a full refresh of one listing has returned, the refresh of the listing
\* having failed: the row still has the last_checked of its creation
C11_Witness ==
    /\ ret.op \in RefreshAllOps /\ ret.count = 1
    /\ DOMAIN store = {1} /\ nextId = 2
    /\ store[1].last_checked = 1
    /\ settings.last_full_refresh = 2

\* a batch record and a return value without the name of the mode
ModeFree(b) == [b EXCEPT !.op = "batch", !.callback = FALSE]
ResultFree(r) == [r EXCEPT !.op = "batch"]
InRefreshAll(s) == pc[s] \in {"rall_next", "rall_fetch", "rall_sleep"}
InBulkAdd(s) == pc[s] \in {"bulk_next", "bulk_sleep"}

BeforeAttempt(s) == pc[s] \in {"rall_next", "bulk_next"}
InAttempt(s) == pc[s] = "rall_fetch"
InDelay(s) == pc[s] \in {"rall_sleep", "bulk_sleep"}
\* in this step the attempt of session s's batch on an item ends
AttemptEnds(s) ==
    /\ BeforeAttempt(s) \/ InAttempt(s)
    /\ ret'.op \in {"refresh_property", "add_property"}

\* C13: within a batch the attempt on an item starts only when no attempt is
\* under way, every attempt, successful or failed, is followed by the delay,
\* and only the delay leads on to the next item, which is the one after it.
C13_SequentialWithDelay ==
    [][\A s \in Sessions :
          /\ BeforeAttempt(s) => call[s] = NoCall
          /\ AttemptEnds(s)
                => /\ InDelay(s)'
                   /\ batch'[s].idx = batch[s].idx
                   /\ call'[s] = NoCall
          /\ ((BeforeAttempt(s) \/ InAttempt(s)) /\ ~AttemptEnds(s))
                => InAttempt(s)' /\ batch'[s].idx = batch[s].idx
          /\ (BeforeAttempt(s)' /\ ~BeforeAttempt(s))
                => \/ pc[s] = "idle" /\ batch'[s].idx = 1
                   \/ InDelay(s) /\ batch'[s].idx = batch[s].idx + 1]_vars

\* the second item of a bulk add is about to be attempted, the first one failed
C13_Witness ==
    \E s \in Sessions :
        /\ pc[s] = "bulk_next"
        /\ batch[s].idx = 2 /\ batch[s].failed = 1

\* in this step a refresh_property call on listing id returns success
RefreshedNow(id) == \E s \in Sessions : RefreshSucceeds(s) /\ call[s].property_id = id
\* in this step sync_to_zoho_crm has had the answer of the CRM for a row
SyncedNow == \E s \in Sessions : pc[s] = "sync_next"

\* C14 as stated: no step other than a refresh of the listing changes any
\* column of a stored row.
C14_OnlyRefreshMutates ==
    [][\A id \in Kept : ~RefreshedNow(id) => store'[id] = store[id]]_vars

\* C14: between its creation and its deletion a stored row is changed by a
\* refresh_property call on it, and by sync_to_zoho_crm, which sets the
\* zoho_id of a row that had none when the CRM has created its record; no
\* other step (the add or the delete of another listing, the export, a
\* failed refresh, a bulk add) changes any column of it.
C14_OnlyRefreshAndSyncIdMutate ==
    [][\A id \in Kept :
          \/ RefreshedNow(id)
          \/ store'[id] = store[id]
          \/ /\ SyncedNow
             /\ store[id].zoho_id = Null
             /\ store'[id] = [store[id] EXCEPT !.zoho_id = ZohoId]]_vars

\* the CRM sync has returned and a stored row carries the id the CRM gave it
C14_Witness ==
    /\ ret.op = "sync_to_zoho_crm" /\ ret.added > 0
    /\ \E id \in DOMAIN store : store[id].zoho_id = ZohoId

\* C15: a call of refresh_property or add_property ends with the answer to
\* its one GET, and a batch attempts each item once: an attempt that failed
\* is followed by the delay and then by the next item or the return, never
\* by a second attempt on the same item.
C15_NoRetries ==
    [][\A s \in Sessions :
          /\ (InRefresh(s) /\ pc'[s] # pc[s])
                => /\ ret'.op = "refresh_property"
                   /\ call'[s] = NoCall
                   /\ pc'[s] \in {"idle", "rall_sleep"}
          /\ (AttemptEnds(s) /\ ~ret'.success)
                => InDelay(s)' /\ batch'[s].idx = batch[s].idx
          /\ (InDelay(s) /\ ~InDelay(s)')
                => \/ pc'[s] = "idle" /\ batch[s].idx = Len(batch[s].items)
                   \/ /\ BeforeAttempt(s)'
                      /\ batch'[s].idx = batch[s].idx + 1
                      /\ batch'[s].idx <= Len(batch[s].items)
                      /\ batch'[s].items = batch[s].items
          /\ (ret'.op = "add_property" /\ pc[s] = "idle") => pc'[s] = "idle"]_vars

\* a batch refresh is at the GET of its second item after the refresh of the
\* first one failed: no time has gone by but that of the inserts
C15_Witness ==
    \E s \in Sessions :
        /\ pc[s] = "rall_fetch"
        /\ batch[s].idx = 2
        /\ now = nextId

\* the errors of the stages of an item
ResolveErrors == {ErrUnsupported, ErrAddress, ErrInvalid}
TransportErrors == {ErrTimeout, ExcMsg, HttpWord \o <<"4","0","4">>, ErrUnknownSource}
ExtractErrors == {ScrapingFailed \o ExcMsg, ScrapingError \o ExcMsg}
\* a response that is no success and whose page would make the extractor raise
BrokenAndRaising == ResponseOutcome(404, PageActive, ExcMsg)

\* the stage an add of input_text ends in when the site answers outcome
EndStage(input_text, outcome) ==
    IF ~Resolved[input_text].success THEN "resolve"
    ELSE IF outcome.kind # "response" \/ outcome.code # 200 THEN "fetch"
    ELSE IF outcome.exc # NoMatch THEN "extract"
    ELSE "store"

\* C16: an item goes through resolve, fetch, extract and store write in this
\* order and ends at the first stage that fails, with that stage's error:
\* after a failed resolve the answer of the site plays no part, after a
\* failed fetch the page is not extracted, and only an item whose three
\* stages succeeded writes to the store; a refresh issues its GET only after
\* its resolve succeeded and writes only on the answer to that GET.
C16_StageOrder ==
    /\ [](\A input_text \in Inputs, outcome \in Outcomes :
            LET result == add_property(input_text, outcome)
                stage == EndStage(input_text, outcome)
            IN  /\ result.success <=> stage = "store"
                /\ stage = "resolve" => result.error = Resolved[input_text].error
                                        /\ result.error \in ResolveErrors
                /\ stage = "fetch" => result.error \in TransportErrors
                /\ stage = "extract" => result.error \in ExtractErrors)
    /\ [](\A source \in {SourceUtah, SourceZillow} :
            scrape_property(Resolved[InMlsPrefixed].url, source, BrokenAndRaising)
               = ScrapeErr(HttpWord \o <<"4","0","4">>))
    /\ [][/\ ((ret'.op \in {"add_property", "refresh_property"} /\ ~ret'.success)
                \/ ret'.op = "none")
               => store' = store
          /\ \A s \in Sessions :
                /\ RefreshBegins(s)
                      => /\ call[s].property_id = 0 /\ store' = store
                         /\ Resolved[call'[s].input_text].success
                         /\ call'[s].url = Resolved[call'[s].input_text].url
                /\ (ret'.op = "refresh_property" /\ ret'.success /\ pc'[s] # pc[s])
                      => InRefresh(s)]_vars

\* an add has ended at the resolver after another item was stored, and the
\* table is as it was
C16_Witness ==
    /\ ret.op = "add_property" /\ ~ret.success
    /\ ret.error = ErrInvalid
    /\ DOMAIN store # {}

\* C17: no two refresh_property executions for the same listing are at the
\* same time between their read of the stored status and their write.
C17_NoConcurrentRefresh ==
    \A s, t \in Sessions :
        (s # t /\ InRefresh(s) /\ InRefresh(t))
            => call[s].property_id # call[t].property_id

(***************************************************************************)
(* The resolver on inputs that are no URL.                                 *)
(***************************************************************************)
\* the test of line 193 on the trimmed input
IsUrlInput(t) == StartsWith(t, HttpPrefix) \/ StartsWith(t, HttpsPrefix)
\* the resolver has returned for the argument
Resolves == out.fn = "convert_input_to_url"
BareNumber(t) == Len(t) \in 6..10 /\ \A i \in DOMAIN t : IsDigit(t[i])
Prefixed(t) ==
    /\ Len(t) > 3
    /\ Upper(SubSeq(t, 1, 3)) = MlsPrefix
    /\ BareNumber(SubSeq(t, 4, Len(t)))
\* the text up to the first line feed
FirstLine(t) ==
    IF \E i \in DOMAIN t : t[i] = "\n"
    THEN SubSeq(t, 1, (CHOOSE i \in DOMAIN t : t[i] = "\n" /\ \A k \in 1..(i - 1) : t[k] # "\n") - 1)
    ELSE t
\* leading digits, a letter, then a comma, on the line the text starts with
AddressShaped(t) ==
    LET l == FirstLine(t)
    IN  /\ l # << >>
        /\ IsDigit(l[1])
        /\ \E i \in DOMAIN l : \E j \in DOMAIN l : i < j /\ IsAlpha(l[i]) /\ l[j] = ","

\* C18: an input that is no URL is decided in this order on its trimmed text:
\* 6 to 10 digits give the primary source and the primary template followed by
\* the digits, the same digits behind 'MLS' in any letter case give the same url
\* and source, leading digits then a letter then a comma give the address
\* error, and everything else gives the invalid input error.
C18_ResolverDecisionOrder ==
    Resolves /\ ~IsUrlInput(Strip(arg)) =>
        LET t == Strip(arg)
        IN  out.value =
               IF BareNumber(t) THEN ResolveOk(UTAH_URL_PATTERN \o t, SourceUtah)
               ELSE IF Prefixed(t)
               THEN ResolveOk(UTAH_URL_PATTERN \o SubSeq(t, 4, Len(t)), SourceUtah)
               ELSE IF AddressShaped(t) THEN ResolveErr(ErrAddress)
               ELSE ResolveErr(ErrInvalid)

\* a padded number behind a prefix that is not in upper case has been resolved
C18_Witness ==
    /\ Resolves
    /\ arg # Strip(arg)
    /\ Prefixed(Strip(arg))
    /\ SubSeq(Strip(arg), 1, 3) # MlsPrefix
    /\ out.value.success
    /\ out.value.url = UTAH_URL_PATTERN \o SubSeq(Strip(arg), 4, Len(Strip(arg)))

(***************************************************************************)
(* The resolver on URLs.                                                   *)
(***************************************************************************)
\* the text before the first character of stops
Before(t, stops) ==
    IF \E i \in DOMAIN t : t[i] \in stops
    THEN SubSeq(t, 1, (CHOOSE i \in DOMAIN t :
                          t[i] \in stops /\ \A k \in 1..(i - 1) : t[k] \notin stops) - 1)
    ELSE t
EndsWith(t, suffix) ==
    Len(suffix) <= Len(t) /\ SubSeq(t, Len(t) - Len(suffix) + 1, Len(t)) = suffix
\* the host of a URL of the two schemes: what follows the scheme, up to the
\* port, the path, the query or the fragment (no argument carries user info)
Host(url) ==
    LET rest == IF StartsWith(url, HttpsPrefix)
                THEN SubSeq(url, Len(HttpsPrefix) + 1, Len(url))
                ELSE SubSeq(url, Len(HttpPrefix) + 1, Len(url))
    IN  Before(rest, {"/", "?", "#", ":"})
\* the host is the name of a source or a name below it
HostOf(host, name) == host = name \/ EndsWith(host, <<".">> \o name)
SourceOfHost(host) ==
    IF HostOf(host, UtahHost) THEN SourceUtah
    ELSE IF HostOf(host, ZillowHost) THEN SourceZillow
    ELSE "None"

\* C19: a URL of the two schemes is decided by its host: a host of a known
\* source gives the url as given with that source, every other host gives the
\* unsupported source error, whatever the path or the query contains.
C19_DecidedByHost ==
    Resolves /\ IsUrlInput(Strip(arg)) =>
        LET t == Strip(arg)
        IN  out.value = IF SourceOfHost(Host(t)) # "None"
                        THEN ResolveOk(t, SourceOfHost(Host(t)))
                        ELSE ResolveErr(ErrUnsupported)

(***************************************************************************)
(* The status normalizer.                                                  *)
(***************************************************************************)
Normalizing == out.fn = "normalize_status"
\* the token is the key in some letter case, between whitespace
Spells(token, key) ==
    \E i \in DOMAIN token : \E j \in DOMAIN token :
        /\ i <= j
        /\ Upper(SubSeq(token, i, j)) = key
        /\ \A k \in DOMAIN token : k < i \/ k > j => token[k] \in Whitespace
Recognized(token) == \E kv \in status_map : Spells(token, kv[1])

\* C20: a token that spells a key of the table in any letter case, between
\* whitespace, gives one of the seven canonical values (the one the table
\* lists for the key); every other token that is not empty comes back exactly
\* as given; the empty token gives the empty string.
C20_StatusClosure ==
    Normalizing =>
        IF arg = << >> THEN out.value = << >>
        ELSE IF Recognized(arg)
        THEN /\ out.value \in CanonicalStatuses
             /\ \A kv \in status_map : Spells(arg, kv[1]) => out.value = kv[2]
        ELSE out.value = arg

\* a padded token in mixed case has been normalized to Pending
C20_Witness ==
    /\ Normalizing
    /\ arg # Strip(arg)
    /\ Upper(arg) # arg
    /\ Recognized(arg)
    /\ out.value = Pending

(***************************************************************************)
(* The extractors on contents.                                             *)
(***************************************************************************)
Extracting == out.fn = "scrape_zillow"
\* the pattern has a match somewhere in the content
HasMatch(content, pattern) == \E i \in DOMAIN content : Capture(content[i], pattern) # << >>
\* the candidate patterns of a field of scrape_zillow, in the order of its list
Candidates(field) ==
    CASE field = "status" -> <<"homeStatus", "spanStatus", "availability">>
      [] field = "price" -> <<"spanPrice", "jsonPrice">>
      [] field = "address" -> <<"h1", "jsonAddress">>
\* what the extractor makes of the capture of a candidate
Shown(field, capture) ==
    CASE field = "status" -> normalize_status(capture)
      [] field = "price" -> Dollar \o capture
      [] field = "address" -> Strip(capture)
\* the field of the value that was returned
Extracted(field) ==
    CASE field = "status" -> out.value.result.status
      [] field = "price" -> out.value.result.price
      [] field = "address" -> out.value.address

\* C21: for status, price and address of scrape_zillow, the value returned is
\* that of the first candidate pattern of the list that has a match in the
\* content, wherever in the content the matches of the candidates are; a later
\* candidate gives the value only when no earlier one has a match.
C21_FirstMatchWins ==
    Extracting =>
        \A field \in {"status", "price", "address"} :
            \A k \in DOMAIN Candidates(field) :
                (/\ HasMatch(arg, Candidates(field)[k])
                 /\ \A j \in 1..(k - 1) : ~HasMatch(arg, Candidates(field)[j]))
                => Extracted(field) = Shown(field, Search(arg, Candidates(field)[k]))

\* the last candidate of the status list matches before the first one in the
\* content, and the status is that of the first one
C21_Witness ==
    /\ Extracting
    /\ \E i \in DOMAIN arg : \E j \in DOMAIN arg :
          /\ i < j
          /\ Capture(arg[i], "availability") # << >>
          /\ Capture(arg[j], "homeStatus") # << >>
    /\ out.value.result.status = normalize_status(Search(arg, "homeStatus"))
    /\ out.value.result.status # normalize_status(Search(arg, "availability"))

\* a candidate pattern of the field has a match in the content
Matched(content, field) ==
    \E k \in DOMAIN Candidates(field) : HasMatch(content, Candidates(field)[k])
\* the capture of the first candidate of the list that has a match
FirstFound(content, field) ==
    LET k == CHOOSE k \in DOMAIN Candidates(field) :
                 /\ HasMatch(content, Candidates(field)[k])
                 /\ \A j \in 1..(k - 1) : ~HasMatch(content, Candidates(field)[j])
    IN  Search(content, Candidates(field)[k])
\* the status token of a Utah page: the value of the last Status fact that
\* is not blank
UtahToken(content) ==
    LET kept == {i \in DOMAIN content : Strip(Capture(content[i], "facts")) # << >>}
    IN  IF kept = {} THEN << >>
        ELSE Strip(Capture(content[CHOOSE i \in kept : \A j \in kept : j <= i], "facts"))
\* status and price as the claim has them extracted from a content
StatusOf(source, content) ==
    IF source = SourceZillow
    THEN IF Matched(content, "status")
         THEN normalize_status(FirstFound(content, "status")) ELSE StatusNotFound
    ELSE IF UtahToken(content) # << >>
         THEN normalize_status(UtahToken(content)) ELSE StatusNotFound
PriceOf(source, content) ==
    IF source = SourceZillow
    THEN IF Matched(content, "price") THEN Dollar \o FirstFound(content, "price") ELSE << >>
    ELSE IF HasMatch(content, "price") THEN Dollar \o Strip(Search(content, "price")) ELSE << >>
AddressOf(content) ==
    IF Matched(content, "address") THEN Strip(FirstFound(content, "address")) ELSE << >>
\* the extractor that has returned, "None" when none has
ExtractedBy ==
    CASE out.fn = "scrape_zillow" -> SourceZillow
      [] out.fn = "scrape_utah_realestate" -> SourceUtah
      [] OTHER -> "None"
\* the add or the refresh of the listing that met the content has returned
Stored == out.fn \in {"add_property", "refresh_property"}
\* the extractors succeed on every content; status and price are empty (the
\* sentinel for status) exactly when nothing matched
ExtractsWhatMatches ==
    ExtractedBy # "None" =>
        /\ out.value.result.success
        /\ out.value.result.status = StatusOf(ExtractedBy, arg)
        /\ out.value.result.price = PriceOf(ExtractedBy, arg)
        /\ out.value.result.status # << >>
        /\ out.value.result.status = StatusNotFound <=>
              IF ExtractedBy = SourceZillow THEN ~Matched(arg, "status")
              ELSE UtahToken(arg) = << >>
        /\ out.value.result.price = << >> <=>
              IF ExtractedBy = SourceZillow THEN ~Matched(arg, "price")
              ELSE ~HasMatch(arg, "price")
\* an add or a refresh that meets the content succeeds and stores what the
\* extractor of the listing's source makes of it
StoresWhatMatches ==
    Stored =>
        /\ ret.success
        /\ DOMAIN store = {1}
        /\ store[1].status = StatusOf(store[1].source, arg)
        /\ store[1].price = PriceOf(store[1].source, arg)

SyncSucceeds(id) ==
    \E s \in Sessions :
        /\ pc[s] = "sync_next"
        /\ batch[s].items[batch[s].idx] = id
        /\ IF pc'[s] = "sync_next"
           THEN batch'[s].success = batch[s].success + 1
           ELSE ret'.added = batch[s].success + 1

\* C23: a row is created without zoho_id; the zoho_id of a stored row changes
\* only in a step in which the CRM sync of this row succeeds, and only from
\* unset to the id the CRM gave; a refresh of the row leaves it as it is.
C23_SyncIdSetOnlyBySync ==
    [][/\ \A id \in DOMAIN store' \ DOMAIN store : store'[id].zoho_id = Null
       /\ \A id \in Kept :
             /\ store'[id].zoho_id # store[id].zoho_id =>
                   /\ SyncSucceeds(id)
                   /\ store[id].zoho_id = Null
                   /\ store'[id].zoho_id = ZohoId
             /\ RefreshedNow(id) => store'[id].zoho_id = store[id].zoho_id]_vars

\* a row the CRM has given its id has been refreshed and still carries it
C23_Witness ==
    /\ ret.op = "refresh_property" /\ ret.success
    /\ \E id \in DOMAIN store :
          /\ store[id].zoho_id = ZohoId
          /\ store[id].last_checked = now - 1
          /\ settings.zoho_last_sync # NullTime
          /\ settings.zoho_last_sync < store[id].last_checked

(***************************************************************************)
(* Listings next to each other.                                            *)
(***************************************************************************)
\* in this step a refresh_property call on id returns from its GET, with or
\* without success
RefreshReturns(id) ==
    /\ ret'.op = "refresh_property"
    /\ \E s \in Sessions : InRefresh(s) /\ ~InRefresh(s)' /\ call[s].property_id = id
\* in this step a refresh_property call returns before its GET
RefreshRefused ==
    /\ ret'.op = "refresh_property"
    /\ \A s \in Sessions : InRefresh(s) => InRefresh(s)'
\* in this step delete_property(id) returns
DeleteReturns(id) == ret'.op = "delete_property" /\ DOMAIN store \ DOMAIN store' \subseteq {id}
\* the UPDATE of a refresh of id that read old_status, resolved url_info and
\* extracted scraped_data: the row after it, from the row before it alone
RowAfter(id, locals, scraped_data) ==
    [store[id] EXCEPT
        !.source = locals.source, !.status = scraped_data.status,
        !.price = scraped_data.price, !.resolved_url = locals.url,
        !.last_checked = now,
        !.last_changed = IF locals.old_status # scraped_data.status THEN now ELSE @,
        !.previous_status = IF locals.old_status # scraped_data.status
                            THEN locals.old_status ELSE @,
        !.notes = Success]

\* C24: a step in which refresh_property(i) returns, with success or with an
\* error, or delete_property(i) returns, leaves every stored listing other
\* than i as it is; and what a successful refresh of i returns and writes is
\* given by the row i, by what the call read of it and by the answer of the
\* site, whatever the other rows hold.
C24_ListingsDoNotInteract ==
    [][\A i \in Ids :
          /\ RefreshRefused => store' = store
          /\ RefreshReturns(i) \/ DeleteReturns(i) =>
                \A j \in DOMAIN store \ {i} : j \in DOMAIN store' /\ store'[j] = store[j]
          /\ \A s \in Sessions :
                RefreshSucceeds(s) /\ call[s].property_id = i /\ i \in DOMAIN store =>
                    \E outcome \in Outcomes :
                        /\ Scraped[call[s].source, outcome].success
                        /\ store'[i] = RowAfter(i, call[s], Scraped[call[s].source, outcome])
                        /\ ret'.status_changed =
                              (call[s].old_status # Scraped[call[s].source, outcome].status)]_vars

\* two listings are stored; the later one has just been refreshed and its
\* status changed, the other one is as its add left it
C24_Witness ==
    /\ DOMAIN store = {1, 2}
    /\ ret.op = "refresh_property" /\ ret.success /\ ret.status_changed
    /\ store[2].last_checked = now - 1
    /\ store[2].last_changed = now - 1
    /\ store[1].last_checked = 1
    /\ store[1].last_changed = NullTime

(***************************************************************************)
(* Batches to their end.                                                   *)
(***************************************************************************)
\* session s is inside a batch refresh or a bulk add
InBatch(s) == batch[s].op \in RefreshAllOps \cup {"bulk_add_properties"}
\* a batch has just returned its result
BatchReturned == ret.op \in RefreshAllOps \cup {"bulk_add_properties"}
\* the attempt on the item of the pass is over, the delay is next
AtDelay(s) == pc[s] \in {"rall_sleep", "bulk_sleep"}
\* every attempt of a batch comes to its end and every batch returns
BatchesTerminate ==
    \A s \in {1} :
        /\ (InBatch(s) /\ ~AtDelay(s)) ~> AtDelay(s)
        /\ InBatch(s) ~> (~InBatch(s) /\ BatchReturned)
\* an attempt ends with the write of the store or with its failure on the
\* list and in the count of the batch
EndsDoneOrRecorded ==
    [][\A s \in {1} :
          InBatch(s) /\ AttemptEnds(s) =>
              \/ ret'.success /\ store' # store
              \/ /\ ~ret'.success
                 /\ Len(batch'[s].errors) = Len(batch[s].errors) + 1
                 /\ batch'[s].failed = batch[s].failed + 1]_vars

\* C25: every attempt of a batch ends, with the write of the store or with a
\* failure the batch records, and every batch returns its result.
C25_BatchTerminates == BatchesTerminate /\ EndsDoneOrRecorded

(***************************************************************************)
(* What the batches report.                                                *)
(***************************************************************************)
InRefreshBatch(s) == batch[s].op \in RefreshAllOps
\* the item of the pass session s is in
Item(s) == batch[s].items[batch[s].idx]

\* C26: a batch refresh takes each stored listing once, in a list as long as
\* the table; the attempt on an item adds one to changes exactly when it
\* changes the stored status of the item, which only a successful refresh
\* does, and no other step of the batch touches a status or the count; the
\* result carries the length of the list as count and the count of these
\* changes as changes.
C26_BatchRefreshAccounting ==
    [][\A s \in {1} :
          /\ (pc[s] = "idle" /\ InRefreshBatch(s)') =>
                /\ Len(batch'[s].items) = Cardinality(DOMAIN store)
                /\ Range(batch'[s].items) = DOMAIN store
                /\ batch'[s].changes = 0
          /\ (pc[s] = "idle" /\ ret'.op \in RefreshAllOps) =>
                /\ store = << >>
                /\ ret'.count = 0 /\ ret'.changes = 0
          /\ (InRefreshBatch(s) /\ AttemptEnds(s)) =>
                /\ batch'[s].changes - batch[s].changes =
                      IF store'[Item(s)].status # store[Item(s)].status THEN 1 ELSE 0
                /\ batch'[s].changes > batch[s].changes => ret'.success
                /\ \A id \in DOMAIN store \ {Item(s)} : store'[id] = store[id]
                /\ DOMAIN store' = DOMAIN store
          /\ (InRefreshBatch(s) /\ ~AttemptEnds(s)) =>
                /\ store' = store
                /\ InRefreshBatch(s)' => batch'[s].changes = batch[s].changes
                /\ InRefreshBatch(s)' => batch'[s].idx \in {batch[s].idx, batch[s].idx + 1}
          /\ (InRefreshBatch(s) /\ ~InRefreshBatch(s)') =>
                /\ batch[s].idx = Len(batch[s].items)
                /\ ret'.op = batch[s].op
                /\ ret'.count = Len(batch[s].items)
                /\ ret'.changes = batch[s].changes]_vars

\* a batch refresh over two listings has returned: one changed its status,
\* the refresh of the other one failed
C26_Witness ==
    /\ ret.op \in RefreshAllOps
    /\ ret.count = 2 /\ ret.changes = 1
    /\ \E i \in DOMAIN store : \E j \in DOMAIN store :
          /\ store[i].last_changed = now - 2
          /\ store[j].last_checked < store[i].last_checked
          /\ settings.last_full_refresh = now - 1

InBulk(s) == batch[s].op = "bulk_add_properties"
\* the items of the list the loop has passed
Passed(s) == IF pc[s] = "bulk_sleep" THEN batch[s].idx ELSE batch[s].idx - 1

\* C27: while bulk_add_properties runs, success + failed is the number of
\* items passed and errors has failed entries; the pass of an item either
\* stores one row with the item as input_text and adds one to success, or
\* stores nothing, adds one to failed and appends to errors the item's text
\* as given, ': ' and the reason add_property returned; no other step of the
\* call changes the table; the result carries the three, so for a list of N
\* items success + failed = N and the table has grown by success.
C27_BulkAddAccounting ==
    [][\A s \in {1} :
          /\ InBulk(s)' =>
                /\ batch'[s].success + batch'[s].failed = Passed(s)'
                /\ Len(batch'[s].errors) = batch'[s].failed
          /\ (InBulk(s) /\ AttemptEnds(s)) =>
                IF ret'.success
                THEN /\ batch'[s].success = batch[s].success + 1
                     /\ batch'[s].failed = batch[s].failed
                     /\ batch'[s].errors = batch[s].errors
                     /\ DOMAIN store' = DOMAIN store \cup {nextId}
                     /\ nextId \notin DOMAIN store
                     /\ store'[nextId].input_text = Item(s)
                ELSE /\ batch'[s].success = batch[s].success
                     /\ batch'[s].failed = batch[s].failed + 1
                     /\ batch'[s].errors =
                           Append(batch[s].errors, Item(s) \o ColonSpace \o ret'.error)
                     /\ store' = store
          /\ (InBulk(s) /\ ~AttemptEnds(s)) => store' = store
          /\ (InBulk(s) /\ ~InBulk(s)') =>
                /\ Passed(s) = Len(batch[s].items)
                /\ ret'.op = "bulk_add_properties"
                /\ ret'.added = batch[s].success
                /\ ret'.failed = batch[s].failed
                /\ ret'.errors = batch[s].errors
                /\ ret'.added + ret'.failed = Len(batch[s].items)
          /\ (pc[s] = "idle" /\ ret'.op = "bulk_add_properties") =>
                /\ ret'.added = 0 /\ ret'.failed = 0 /\ ret'.errors = << >>
                /\ store' = store]_vars

\* a bulk add of two items has returned: the first one failed to resolve and
\* is on the list under its text, the second one is stored
C27_Witness ==
    /\ ret.op = "bulk_add_properties"
    /\ ret.added = 1 /\ ret.failed = 1
    /\ ret.errors = <<InInvalid \o ColonSpace \o ErrInvalid>>
    /\ DOMAIN store = {1}
    /\ store[1].input_text = InMlsPrefixed
    /\ store[1].last_checked = now - 1

(***************************************************************************)
(* previous_status and last_changed.                                       *)
(***************************************************************************)
\* C28: with the operations run one at a time, every stored listing has
\* previous_status unset or different from its status, and previous_status
\* set exactly when last_changed is set.
C28_PreviousStatusDiffers ==
    \A id \in DOMAIN store :
        /\ store[id].previous_status = Null \/ store[id].previous_status # store[id].status
        /\ store[id].previous_status # Null <=> store[id].last_changed # NullTime

\* a listing that went from For Sale to Pending has been refreshed once more
\* and found unchanged
C28_Witness ==
    /\ ret.op = "refresh_property" /\ ret.success /\ ~ret.status_changed
    /\ \E id \in DOMAIN store :
          /\ store[id].previous_status = ForSale
          /\ store[id].status = Pending
          /\ store[id].last_changed # NullTime
          /\ store[id].last_checked > store[id].last_changed

(***************************************************************************)
(* The sentinel in change detection.                                       *)
(***************************************************************************)
\* the refresh that returns in this step has moved the stored status of row
\* id from one of from to one of to
Moves(id, from, to) == store[id].status \in from /\ store'[id].status \in to
\* the change is written on the row, returned, and counted by a batch
CountedAsChange(s, id) ==
    /\ store'[id].previous_status = store[id].status
    /\ store'[id].last_changed = now
    /\ ret'.status_changed
    /\ InRefreshBatch(s) => batch'[s].changes = batch[s].changes + 1

\* C29: a successful refresh that finds no status token on a listing stored
\* with a canonical status stores 'Status Not Found', keeps the canonical
\* status as previous_status, writes last_changed, returns status_changed
\* and is counted in the changes of a batch; so is the refresh that leads
\* from the sentinel back to a canonical status.
C29_SentinelIsAStatus ==
    [][\A s \in Sessions :
          (RefreshSucceeds(s) /\ call[s].property_id \in DOMAIN store) =>
              LET id == call[s].property_id
              IN  /\ Moves(id, CanonicalStatuses, {StatusNotFound}) => CountedAsChange(s, id)
                  /\ Moves(id, {StatusNotFound}, CanonicalStatuses) => CountedAsChange(s, id)]_vars

(***************************************************************************)
(* A delete next to a refresh.                                             *)
(***************************************************************************)
\* in this step session s calls refresh_property from its batch on an item
\* that is not stored
CallsOnMissing(s) ==
    pc[s] = "rall_next" /\ pc'[s] # pc[s] /\ Item(s) \notin DOMAIN store
\* in this step the refresh_property call of session s comes back from its
\* GET with success, and the row it read is not stored any more
WritesOnMissing(s) == RefreshSucceeds(s) /\ call[s].property_id \notin DOMAIN store
\* the batch of session s goes on from the item of this pass
CarriesOn(s) ==
    InRefreshBatch(s) =>
        /\ pc'[s] = "rall_sleep"
        /\ batch'[s].items = batch[s].items
        /\ batch'[s].idx = batch[s].idx

\* C30: a row enters the table only by the INSERT of add_property, under a
\* new id; refresh_property goes to its GET only for an id that is stored,
\* and returns 'Not found' for the item of a batch that is gone; its UPDATE on
\* a row deleted since it read it leaves the row absent; in both cases the
\* batch goes on to its delay and from there to the next item.
C30_DeletedStaysDeleted ==
    [][/\ \A id \in DOMAIN store' \ DOMAIN store :
             ret'.op = "add_property" /\ ret'.success /\ id = nextId
       /\ \A s \in Sessions :
             /\ (~InRefresh(s) /\ InRefresh(s)') => call'[s].property_id \in DOMAIN store
             /\ CallsOnMissing(s) =>
                   /\ ret' = RefreshFailed(ErrNotFound)
                   /\ ~InRefresh(s)'
                   /\ store' = store
                   /\ CarriesOn(s)
             /\ WritesOnMissing(s) =>
                   /\ store' = store
                   /\ CarriesOn(s)
             /\ (pc[s] = "rall_sleep" /\ pc'[s] # pc[s] /\ InRefreshBatch(s)') =>
                   /\ pc'[s] = "rall_next"
                   /\ batch'[s].idx = batch[s].idx + 1]_vars

\* the batch is at the GET of its second item; the first one was deleted by
\* the other session after the batch had read the table
C30_Witness ==
    /\ pc[1] = "rall_fetch"
    /\ batch[1].idx = 2
    /\ batch[1].items[1] \notin DOMAIN store
    /\ batch[1].items[2] \in DOMAIN store

====
